---------------------------- MODULE Spec2Model ----------------------------
(***************************************************************************)
(* A model of the GlusterFS VFS module of Samba (src/src/vfs_glusterfs.c): *)
(*   - the list of pre-opened glfs_t sessions (glfs_preopened) with its    *)
(*     reference counts, driven by vfs_gluster_connect/disconnect;         *)
(*   - the same operations cut into the steps two threads can interleave;  *)
(*   - the POSIX ACL codec (smb_to_gluster_acl / gluster_to_smb_acl).      *)
(*                                                                         *)
(* C strings are tuples of character codes (strcmp walks them), pointers   *)
(* to glfs_t are positive session numbers and NULL is 0, and a uint32_t is *)
(* a pair <<high 16 bits, low 16 bits>> so that 32-bit wrap-around is kept.*)
(***************************************************************************)
EXTENDS Integers, Sequences, FiniteSets, TLC

VARIABLES
    \* ---- connection cache (process-wide list, vfs_glusterfs.c:78-84)
    glfs_preopened,   \* the list, head first: records [volume, connectpath, fs, ref]
    handle_data,      \* handle->data of every share
    attached,         \* the server's view: connect_fn returned 0, disconnect not yet called
    last_call,        \* the last VFS call: its result, its local fs, the backend calls it made
    glfs_new_calls,   \* number of glfs_new calls made so far
    fs_fini,          \* fs_fini[fs]: number of glfs_fini(fs) calls, for every session created
    acquired,         \* acquired[fs]: connects that returned 0 with handle->data = fs
    released,         \* released[fs]: disconnects called with handle->data = fs
    uaf,              \* a freed list entry has been read
    crashed,          \* the process died on an invalid pointer
    \* ---- the steps of one thread per share (interleaved specification)
    pc,               \* where each share's thread stands
    t_fs,             \* local variable fs of the running call
    t_tmp,            \* the decremented count held in a register
    \* ---- POSIX ACL codec
    theacl,           \* the SMB_ACL_T handed to smb_to_gluster_acl: entries [a_type, a_perm, uid, gid]
    acl_probe,        \* what the size query (buf == NULL) returned, or NoCall
    acl_buf,          \* the destination buffer, byte by byte, or NullBuf
    acl_ret,          \* the last smb_to_gluster_acl with a buffer: its result, errno and len
    acl_out,          \* what gluster_to_smb_acl returned for the encoded blob
    acl_pc,           \* how far the codec run has come
    \* ---- file objects, directory streams and the other VFS operations
    errno,            \* the C library's errno
    last_op,          \* the last of these operations: its arguments, its result, the backend calls it made
    segv,             \* the process died writing or reading through a NULL pointer
    fsp_ext,          \* fsp_ext[f]: the extensions this module has on files_struct f, as a list
    fsp_opened,       \* the server's view: open_fn on f succeeded and close_fn has not run since
    glfds,            \* every glfs_fd_t the backend handed out: how it was made, attached, detached, released
    dir_open,         \* a directory stream is open
    dir_entries,      \* the entries of the open directory, in the backend's order
    dir_offset,       \* the offset the backend's stream stands at
    dir_cursors,      \* the cursors the caller got from telldir on this stream
    smb_fname_st,     \* smb_fname->st, the struct stat_ex vfs_gluster_stat fills
    \* ---- the comparator and the sort of the ACL encoder on their own
    cmp_aces,         \* an array of struct gluster_ace: records [tag, perm, id]
    cmp_ret,          \* cmp_ret[i][j]: the sign of gluster_ace_cmp(&cmp_aces[i], &cmp_aces[j])
    cmp_sorted,       \* the array after gluster_acl_normalize
    \* ---- the ACL attributes of one file and the directory streams of file objects
    xattrs,           \* xattrs[key]: the blob the backend stores under key, <<>> for none
    dirps             \* the descriptors fdopendir handed out as DIR *: those out, those closedir got

cacheVars == <<glfs_preopened, handle_data, attached, last_call, glfs_new_calls,
               fs_fini, acquired, released, uaf, crashed>>
threadVars == <<pc, t_fs, t_tmp>>
aclVars == <<theacl, acl_probe, acl_buf, acl_ret, acl_out, acl_pc>>
fspVars == <<fsp_ext, fsp_opened, glfds>>
dirVars == <<dir_open, dir_entries, dir_offset, dir_cursors>>
opsVars == <<smb_fname_st>>
cmpVars == <<cmp_aces, cmp_ret, cmp_sorted>>
storeVars == <<xattrs, dirps>>
fsVars == <<errno, last_op, segv, fspVars, dirVars, opsVars, cmpVars, storeVars>>

-----------------------------------------------------------------------------
(* Bounds of the exploration *)

\* glfs_new is called at most this many times in one run
MaxSessions == 2

\* connect returns one session at most this many times in one run
MaxAcquires == 3

\* an ACL handed to the codec has at most this many entries
MaxAclLen == 2

\* the backend hands out at most this many descriptors in one run
MaxFds == 3

\* a directory has at most this many entries
MaxDirLen == 3

\* an array handed to the comparator on its own has this many records
MaxCmpLen == 3

-----------------------------------------------------------------------------
(* C values *)

NULL == 0

\* a pointer value that addresses no object
WildPtr == -1

\* a char * that is NULL (no tuple of character codes)
NullStr == <<-1>>

RECURSIVE strcmpFrom(_, _, _)
strcmpFrom(s1, s2, i) ==
    LET c1 == IF i <= Len(s1) THEN s1[i] ELSE 0
        c2 == IF i <= Len(s2) THEN s2[i] ELSE 0
    IN  IF c1 # c2 THEN c1 - c2
        ELSE IF c1 = 0 THEN 0
        ELSE strcmpFrom(s1, s2, i + 1)

\* a comparison of the first Len(s1) characters only (strncmp with the length of s1)
strcmp_prefix(s1, s2) ==
    strcmpFrom(s1, IF Len(s2) > Len(s1) THEN SubSeq(s2, 1, Len(s1)) ELSE s2, 1)

strcmp(s1, s2) == strcmpFrom(s1, s2, 1)

-----------------------------------------------------------------------------
(* The shares of smb.conf that use this module, and their parameters *)

str_volA == <<118, 111, 108, 65>>        \* "volA"
str_volB == <<118, 111, 108, 66>>        \* "volB"
str_docs == <<100, 111, 99, 115>>        \* "docs"
str_p == <<47, 112>>                     \* "/p"
str_p_slash == <<47, 112, 47>>           \* "/p/"

Shares == {"s1", "s2", "s3", "s4", "s5"}

\* the service name passed to connect_fn
ShareService(s) ==
    CASE s = "s1" -> str_volA
      [] s = "s2" -> str_docs
      [] s = "s3" -> str_docs
      [] s = "s4" -> str_volB
      [] s = "s5" -> str_volA

\* lp_parm_const_string(SNUM(conn), "glusterfs", "volume", NULL)
ShareVolumeParm(s) ==
    CASE s = "s1" -> NullStr
      [] s = "s2" -> str_volA
      [] s = "s3" -> str_volA
      [] s = "s4" -> NullStr
      [] s = "s5" -> NullStr

\* handle->conn->connectpath
ShareConnectPath(s) ==
    CASE s = "s1" -> str_p
      [] s = "s2" -> str_p
      [] s = "s3" -> str_p
      [] s = "s4" -> str_p
      [] s = "s5" -> str_p_slash

\* volume = lp_parm_const_string(...); if (volume == NULL) volume = service;
ShareVolume(s) ==
    IF ShareVolumeParm(s) = NullStr THEN ShareService(s) ELSE ShareVolumeParm(s)

-----------------------------------------------------------------------------
(* The list of pre-opened sessions *)

\* positions of the entries of list whose fs is the given pointer
EntriesOf(list, fs) == {i \in 1..Len(list) : list[i].fs = fs}

\* the list without its i-th entry (DLIST_REMOVE)
DLIST_REMOVE(list, i) == [j \in 1..(Len(list) - 1) |-> IF j < i THEN list[j] ELSE list[j + 1]]

\* the list with entry hooked in at its front (DLIST_ADD)
DLIST_ADD(list, entry) == <<entry>> \o list

\* a registration that hooks the entry in with a count of zero
set_preopened_ref_zero(list, volume, connectpath, fs, oom) ==
    IF oom
    THEN [ret |-> -1, list |-> list]
    ELSE [ret |-> 0,
          list |-> DLIST_ADD(list, [volume |-> volume, connectpath |-> connectpath,
                                    fs |-> fs, ref |-> 0])]

\* glfs_set_preopened: oom says that one of its three allocations fails
glfs_set_preopened(list, volume, connectpath, fs, oom) ==
    IF oom
    THEN [ret |-> -1, list |-> list]
    ELSE [ret |-> 0,
          list |-> DLIST_ADD(list, [volume |-> volume, connectpath |-> connectpath,
                                    fs |-> fs, ref |-> 1])]

\* a lookup that starts its walk at the second entry of the list
RECURSIVE find_after(_, _, _, _)
find_after(list, volume, connectpath, i) ==
    IF i + 1 > Len(list) THEN 0
    ELSE IF strcmpFrom(list[i + 1].volume, volume, 1) = 0
            /\ strcmpFrom(list[i + 1].connectpath, connectpath, 1) = 0
         THEN i + 1
         ELSE find_after(list, volume, connectpath, i + 1)

\* the first position from i on whose volume and connectpath both compare equal, or 0
RECURSIVE find_from(_, _, _, _)
find_from(list, volume, connectpath, i) ==
    IF i > Len(list) THEN 0
    ELSE IF strcmp(list[i].volume, volume) = 0
            /\ strcmp(list[i].connectpath, connectpath) = 0
         THEN i
         ELSE find_from(list, volume, connectpath, i + 1)

\* glfs_find_preopened that returns the session found without counting the new user
find_preopened_no_ref(list, volume, connectpath) ==
    LET i == find_from(list, volume, connectpath, 1)
    IN  IF i = 0
        THEN [fs |-> NULL, list |-> list]
        ELSE [fs |-> list[i].fs, list |-> list]

\* glfs_find_preopened: the session found (or NULL) and the list with its count raised
glfs_find_preopened(list, volume, connectpath) ==
    LET i == find_from(list, volume, connectpath, 1)
    IN  IF i = 0
        THEN [fs |-> NULL, list |-> list]
        ELSE [fs |-> list[i].fs,
              list |-> [list EXCEPT ![i].ref = list[i].ref + 1]]

(***************************************************************************)
(* glfs_clear_preopened walks the list from position i.  At the entry      *)
(* whose fs matches it decrements the count and returns while the count is *)
(* not zero; at zero it unlinks the entry, calls glfs_fini, frees the      *)
(* entry and then evaluates entry->next on the freed entry to go on.  What *)
(* that read yields is not defined; ub chooses it:                         *)
(*   NULL         the loop ends (DLIST_REMOVE had cleared the field),      *)
(*   WildPtr      an invalid pointer, the process dies on the next test,   *)
(*   a position   a pointer to that entry of the remaining list.           *)
(* The result: the list, the sessions glfs_fini was called on, in order,   *)
(* whether a freed entry was read and whether the process died.            *)
(***************************************************************************)
RECURSIVE clear_from(_, _, _, _, _)
clear_from(list, fs, i, ub, finis) ==
    IF i > Len(list)
    THEN [list |-> list, finis |-> finis, uaf |-> FALSE, crashed |-> FALSE]
    ELSE IF list[i].fs = fs
         THEN IF list[i].ref - 1 # 0
              THEN [list |-> [list EXCEPT ![i].ref = list[i].ref - 1],
                    finis |-> finis, uaf |-> FALSE, crashed |-> FALSE]
              ELSE LET rest == DLIST_REMOVE(list, i)
                       done == Append(finis, list[i].fs)
                   IN  CASE ub = NULL ->
                              [list |-> rest, finis |-> done, uaf |-> TRUE,
                               crashed |-> FALSE]
                         [] ub = WildPtr ->
                              [list |-> rest, finis |-> done, uaf |-> TRUE,
                               crashed |-> TRUE]
                         [] OTHER ->
                              LET r == clear_from(rest, fs, ub, NULL, done)
                              IN  [r EXCEPT !.uaf = TRUE]
         ELSE clear_from(list, fs, i + 1, ub, finis)

\* what the read of the freed entry's next field may yield, given the list before the call
FreedReads(list) == {NULL, WildPtr} \cup (1..(Len(list) - 1))

\* a release that unlinks and tears down the matching entry whatever its count
clear_ignoring_ref(list, fs, ub) ==
    IF EntriesOf(list, fs) = {}
    THEN [list |-> list, finis |-> <<>>, uaf |-> FALSE, crashed |-> FALSE]
    ELSE LET i == CHOOSE k \in EntriesOf(list, fs) : \A j \in EntriesOf(list, fs) : k <= j
         IN  [list |-> DLIST_REMOVE(list, i), finis |-> <<fs>>, uaf |-> TRUE,
              crashed |-> FALSE]

glfs_clear_preopened(list, fs, ub) == clear_from(list, fs, 1, ub, <<>>)

\* glfs_fini called on every session of the sequence finis
RECURSIVE fini_all(_, _)
fini_all(counts, finis) ==
    IF finis = <<>> THEN counts
    ELSE fini_all([counts EXCEPT ![Head(finis)] = counts[Head(finis)] + 1], Tail(finis))

-----------------------------------------------------------------------------
(* vfs_gluster_connect and vfs_gluster_disconnect, each as one call *)

\* the calls of vfs_gluster_connect that can fail when a session is constructed
FailPoints == {"glfs_new", "glfs_set_volfile_server", "glfs_set_xlator_option",
               "glfs_set_logging", "glfs_init", "glfs_set_preopened"}

(***************************************************************************)
(* vfs_gluster_connect on the list, for the share's volume and path.  fail *)
(* names the call that fails ("none": no call fails) and new_fs is the     *)
(* pointer glfs_new returns when it succeeds.  The result: ret, the value  *)
(* of the local fs at done, the list, and the backend calls made.          *)
(***************************************************************************)
\* a connect that registers the session before glfs_init and forgets it there on failure
connect_call_early_register(list, volume, connectpath, fail, new_fs) ==
    LET found == glfs_find_preopened(list, volume, connectpath)
        reg == glfs_set_preopened(list, volume, connectpath, new_fs,
                                  fail = "glfs_set_preopened")
    IN  IF found.fs # NULL
        THEN [ret |-> 0, fs |-> found.fs, list |-> found.list, failed |-> "none",
              glfs_new |-> FALSE, glfs_init |-> FALSE, glfs_fini |-> FALSE]
        ELSE IF fail = "glfs_new"
        THEN [ret |-> -1, fs |-> NULL, list |-> list, failed |-> fail,
              glfs_new |-> TRUE, glfs_init |-> FALSE, glfs_fini |-> FALSE]
        ELSE IF fail \in {"glfs_set_volfile_server", "glfs_set_xlator_option",
                          "glfs_set_logging"}
        THEN [ret |-> -1, fs |-> new_fs, list |-> list, failed |-> fail,
              glfs_new |-> TRUE, glfs_init |-> FALSE, glfs_fini |-> TRUE]
        ELSE IF fail = "glfs_init"
        THEN [ret |-> -1, fs |-> new_fs, list |-> reg.list, failed |-> fail,
              glfs_new |-> TRUE, glfs_init |-> TRUE, glfs_fini |-> TRUE]
        ELSE [ret |-> reg.ret, fs |-> new_fs, list |-> reg.list, failed |-> fail,
              glfs_new |-> TRUE, glfs_init |-> TRUE, glfs_fini |-> reg.ret < 0]

connect_call(list, volume, connectpath, fail, new_fs) ==
    LET found == glfs_find_preopened(list, volume, connectpath)
        reg == glfs_set_preopened(list, volume, connectpath, new_fs,
                                  fail = "glfs_set_preopened")
    IN  IF found.fs # NULL
        THEN [ret |-> 0, fs |-> found.fs, list |-> found.list, failed |-> "none",
              glfs_new |-> FALSE, glfs_init |-> FALSE, glfs_fini |-> FALSE]
        ELSE IF fail = "glfs_new"
        THEN [ret |-> -1, fs |-> NULL, list |-> list, failed |-> fail,
              glfs_new |-> TRUE, glfs_init |-> FALSE, glfs_fini |-> FALSE]
        ELSE IF fail \in {"glfs_set_volfile_server", "glfs_set_xlator_option",
                          "glfs_set_logging"}
        THEN [ret |-> -1, fs |-> new_fs, list |-> list, failed |-> fail,
              glfs_new |-> TRUE, glfs_init |-> FALSE, glfs_fini |-> TRUE]
        ELSE IF fail = "glfs_init"
        THEN [ret |-> -1, fs |-> new_fs, list |-> list, failed |-> fail,
              glfs_new |-> TRUE, glfs_init |-> TRUE, glfs_fini |-> TRUE]
        ELSE [ret |-> reg.ret, fs |-> new_fs, list |-> reg.list, failed |-> fail,
              glfs_new |-> TRUE, glfs_init |-> TRUE, glfs_fini |-> reg.ret < 0]

\* the per-session counters with one more session, not yet torn down
NewSession(counts) == Append(counts, 0)

vfs_gluster_connect(s) ==
    /\ ~crashed
    /\ ~attached[s]
    /\ \E fail \in FailPoints \cup {"none"} :
         LET new_fs == Len(fs_fini) + 1
             r == connect_call(glfs_preopened, ShareVolume(s), ShareConnectPath(s),
                               fail, new_fs)
             created == r.glfs_new /\ r.fs # NULL
             fini0 == IF created THEN NewSession(fs_fini) ELSE fs_fini
             acq0 == IF created THEN NewSession(acquired) ELSE acquired
         IN  /\ r.glfs_new => glfs_new_calls < MaxSessions
             /\ (~r.glfs_new /\ r.ret = 0) => acquired[r.fs] < MaxAcquires
             /\ glfs_preopened' = r.list
             /\ glfs_new_calls' = glfs_new_calls + (IF r.glfs_new THEN 1 ELSE 0)
             /\ fs_fini' = IF r.glfs_fini THEN fini_all(fini0, <<r.fs>>) ELSE fini0
             /\ released' = IF created THEN NewSession(released) ELSE released
             /\ acquired' = IF r.ret = 0
                            THEN [acq0 EXCEPT ![r.fs] = acq0[r.fs] + 1]
                            ELSE acq0
             /\ handle_data' = IF r.ret = 0 THEN [handle_data EXCEPT ![s] = r.fs]
                                            ELSE handle_data
             /\ attached' = [attached EXCEPT ![s] = (r.ret = 0)]
             /\ last_call' = [op |-> "connect", share |-> s, ret |-> r.ret, fs |-> r.fs,
                               failed |-> r.failed,
                               glfs_new |-> r.glfs_new, glfs_init |-> r.glfs_init]
    /\ UNCHANGED <<uaf, crashed>>
    /\ UNCHANGED <<threadVars, aclVars, fsVars>>

vfs_gluster_disconnect(s) ==
    /\ ~crashed
    /\ attached[s]
    /\ \E ub \in FreedReads(glfs_preopened) :
         LET fs == handle_data[s]
             r == glfs_clear_preopened(glfs_preopened, fs, ub)
         IN  /\ glfs_preopened' = r.list
             /\ fs_fini' = fini_all(fs_fini, r.finis)
             /\ released' = [released EXCEPT ![fs] = released[fs] + 1]
             /\ uaf' = (uaf \/ r.uaf)
             /\ crashed' = r.crashed
    /\ attached' = [attached EXCEPT ![s] = FALSE]
    /\ last_call' = [op |-> "disconnect", share |-> s, ret |-> 0, fs |-> handle_data[s],
                      failed |-> "none", glfs_new |-> FALSE, glfs_init |-> FALSE]
    /\ UNCHANGED <<handle_data, glfs_new_calls, acquired>>
    /\ UNCHANGED <<threadVars, aclVars, fsVars>>

(***************************************************************************)
(* POSIX ACL codec (vfs_glusterfs.c:943-1208).                             *)
(*                                                                         *)
(* The xattr blob is a sequence of bytes: a 4-byte header holding the      *)
(* version and one 8-byte record {tag, perm, id} per entry, every field    *)
(* little-endian.  Memory holding a struct is the same bytes: the model    *)
(* takes a little-endian LP64 host, where a native store of a field and    *)
(* SSVAL/SIVAL of it give the same bytes and where a pointer to a struct   *)
(* gluster_ace is 8 bytes wide, as wide as the struct itself.              *)
(***************************************************************************)
GLUSTER_ACL_VERSION == 2
GLUSTER_ACL_READ == 4
GLUSTER_ACL_WRITE == 2
GLUSTER_ACL_EXECUTE == 1

GLUSTER_ACL_UNDEFINED_TAG == 0
GLUSTER_ACL_USER_OBJ == 1
GLUSTER_ACL_USER == 2
GLUSTER_ACL_GROUP_OBJ == 4
GLUSTER_ACL_GROUP == 8
GLUSTER_ACL_MASK == 16
GLUSTER_ACL_OTHER == 32

\* (uint32_t)(-1)
GLUSTER_ACL_UNDEFINED_ID == <<65535, 65535>>

\* sizeof(struct gluster_acl_header) and sizeof(struct gluster_ace)
HeaderSize == 4
AceSize == 8

\* Samba's permission bits of an smb_acl_entry (include/smb_acls.h)
SMB_ACL_READ == 4
SMB_ACL_WRITE == 2
SMB_ACL_EXECUTE == 1

\* Samba's SMB_ACL_TAG_T values the two switches know
SmbAclTags == {"SMB_ACL_USER", "SMB_ACL_USER_OBJ", "SMB_ACL_GROUP",
               "SMB_ACL_GROUP_OBJ", "SMB_ACL_OTHER", "SMB_ACL_MASK"}

\* a byte or a uid_t/gid_t field nobody has written yet
Uninit == -1
Uninit32 == <<Uninit, Uninit>>

\* buf == NULL, and "not called yet" in the place of a return value
NullBuf == <<-2>>
NoCall == -2

\* x & bit # 0, for a single bit
HasBit(x, bit) == (x \div bit) % 2 = 1

\* a - b in uint32_t, on <<high half, low half>>
Sub32(a, b) ==
    LET lo == a[2] - b[2]
        borrow == IF lo < 0 THEN 1 ELSE 0
        hi == a[1] - b[1] - borrow
    IN  <<(hi + 65536) % 65536, (lo + 65536) % 65536>>

\* the sign of (int) d for a uint32_t d
IntSign(d) ==
    IF d = <<0, 0>> THEN 0
    ELSE IF d[1] >= 32768 THEN -1
    ELSE 1

\* only the sign of the result matters to qsort
gluster_ace_cmp(ace1, ace2) ==
    LET ret == ace1.tag - ace2.tag
    IN  IF ret # 0 THEN ret ELSE IntSign(Sub32(ace1.id, ace2.id))

Permuted(a, p) == [i \in 1..Len(a) |-> a[p[i]]]

\* qsort(3) with comparator gluster_ace_cmp: any arrangement of the elements
\* the comparator accepts as ordered; with a comparator that accepts none
\* (it is not an order), any arrangement at all.
qsort(a) ==
    LET all == {Permuted(a, p) : p \in Permutations(1..Len(a))}
        ordered == {b \in all :
                      \A i, j \in 1..Len(b) :
                          i < j => gluster_ace_cmp(b[i], b[j]) <= 0}
    IN  IF ordered # {} THEN ordered ELSE all

\* element width handed to qsort is the pointer size, 8 like the record
gluster_acl_normalize(entries) == qsort(entries)

SSVAL(v) == <<v % 256, v \div 256>>
SIVAL(v) == SSVAL(v[2]) \o SSVAL(v[1])
SVAL(buf, off) == buf[off + 1] + 256 * buf[off + 2]
IVAL(buf, off) == <<SVAL(buf, off + 2), SVAL(buf, off)>>

RECURSIVE ace_bytes(_, _)
ace_bytes(entries, i) ==
    IF i > Len(entries) THEN <<>>
    ELSE SSVAL(entries[i].tag) \o SSVAL(entries[i].perm) \o SIVAL(entries[i].id)
         \o ace_bytes(entries, i + 1)

\* the bytes of header and entries once every field is little-endian
gluster_acl_to_xattr(version, entries) ==
    SIVAL(<<0, version>>) \o ace_bytes(entries, 1)

\* memory after bytes were stored at the start of buf
Stored(buf, bytes) ==
    LET n == IF Len(buf) > Len(bytes) THEN Len(buf) ELSE Len(bytes)
    IN  [i \in 1..n |-> IF i <= Len(bytes) THEN bytes[i] ELSE buf[i]]

\* ---- smb_to_gluster_acl

\* first switch of the loop; GLUSTER_ACL_UNDEFINED_TAG stands for its default branch
ace_tag(a_type) ==
    CASE a_type = "SMB_ACL_USER" -> GLUSTER_ACL_USER
      [] a_type = "SMB_ACL_USER_OBJ" -> GLUSTER_ACL_USER_OBJ
      [] a_type = "SMB_ACL_GROUP" -> GLUSTER_ACL_GROUP
      [] a_type = "SMB_ACL_GROUP_OBJ" -> GLUSTER_ACL_GROUP_OBJ
      [] a_type = "SMB_ACL_OTHER" -> GLUSTER_ACL_OTHER
      [] a_type = "SMB_ACL_MASK" -> GLUSTER_ACL_MASK
      [] OTHER -> GLUSTER_ACL_UNDEFINED_TAG

ace_id(smb_ace) ==
    CASE smb_ace.a_type = "SMB_ACL_USER" -> smb_ace.uid
      [] smb_ace.a_type = "SMB_ACL_GROUP" -> smb_ace.gid
      [] OTHER -> GLUSTER_ACL_UNDEFINED_ID

ace_perm(a_perm) ==
    (IF HasBit(a_perm, SMB_ACL_READ) THEN GLUSTER_ACL_READ ELSE 0)
    + (IF HasBit(a_perm, SMB_ACL_WRITE) THEN GLUSTER_ACL_WRITE ELSE 0)
    + (IF HasBit(a_perm, SMB_ACL_EXECUTE) THEN GLUSTER_ACL_EXECUTE ELSE 0)

to_gluster_ace(smb_ace) ==
    [tag |-> ace_tag(smb_ace.a_type), perm |-> ace_perm(smb_ace.a_perm),
     id |-> ace_id(smb_ace)]

\* a size that forgets the header
acl_size_no_header(count) == count * AceSize

\* size = sizeof(*hdr) + (count * sizeof(*ace))
acl_size(count) == HeaderSize + count * AceSize

\* a length test that lets a buffer one byte short through
len_too_short_by_two(len, size) == len + 1 < size

\* if (len < size)
len_too_short(len, size) == len < size

\* index of the first entry the switch does not know, 0 if there is none
RECURSIVE first_unknown(_, _)
first_unknown(acl, i) ==
    IF i > Len(acl) THEN 0
    ELSE IF acl[i].a_type \notin SmbAclTags THEN i
    ELSE first_unknown(acl, i + 1)

\* The results the call can have: [ret, errno, buf], buf being the memory at
\* the destination afterwards.  More than one only where qsort has a choice.
smb_to_gluster_acl(acl, buf, len) ==
    LET count == Len(acl)
        size == acl_size(count)
        bad == first_unknown(acl, 1)
        aces == [i \in 1..count |-> to_gluster_ace(acl[i])]
    IN  IF buf = NullBuf
        THEN {[ret |-> size, errno |-> "unset", buf |-> buf]}
        ELSE IF len_too_short(len, size)
        THEN {[ret |-> -1, errno |-> "ERANGE", buf |-> buf]}
        ELSE IF bad # 0
        THEN \* the header and the entries before the unknown one are in place
             {[ret |-> -1, errno |-> "EINVAL",
               buf |-> Stored(buf, gluster_acl_to_xattr(GLUSTER_ACL_VERSION,
                                                        SubSeq(aces, 1, bad - 1)))]}
        ELSE {[ret |-> size, errno |-> "unset",
               buf |-> Stored(buf, gluster_acl_to_xattr(GLUSTER_ACL_VERSION, sorted))] :
                 sorted \in gluster_acl_normalize(aces)}

\* ---- gluster_to_smb_acl

smb_tag(tag) ==
    CASE tag = GLUSTER_ACL_USER -> "SMB_ACL_USER"
      [] tag = GLUSTER_ACL_USER_OBJ -> "SMB_ACL_USER_OBJ"
      [] tag = GLUSTER_ACL_GROUP -> "SMB_ACL_GROUP"
      [] tag = GLUSTER_ACL_GROUP_OBJ -> "SMB_ACL_GROUP_OBJ"
      [] tag = GLUSTER_ACL_OTHER -> "SMB_ACL_OTHER"
      [] tag = GLUSTER_ACL_MASK -> "SMB_ACL_MASK"
      [] OTHER -> "unknown"

smb_perm(perm) ==
    (IF HasBit(perm, GLUSTER_ACL_READ) THEN SMB_ACL_READ ELSE 0)
    + (IF HasBit(perm, GLUSTER_ACL_WRITE) THEN SMB_ACL_WRITE ELSE 0)
    + (IF HasBit(perm, GLUSTER_ACL_EXECUTE) THEN SMB_ACL_EXECUTE ELSE 0)

\* one pass of the loop on the record at byte offset off; the result comes
\* from SMB_MALLOC, so a uid or gid the loop does not set stays unwritten
to_smb_ace(buf, off) ==
    LET a_type == smb_tag(SVAL(buf, off))
        id == IVAL(buf, off + 4)
    IN  [a_type |-> a_type,
         a_perm |-> smb_perm(SVAL(buf, off + 2)),
         uid |-> IF a_type = "SMB_ACL_USER" THEN id ELSE Uninit32,
         gid |-> IF a_type = "SMB_ACL_GROUP" THEN id ELSE Uninit32]

NullAcl(code) == [null |-> TRUE, acl |-> <<>>, errno |-> code]

\* a decoder that drops the bytes after the last whole record
decode_ignoring_remainder(buf, xattr_size, oom) ==
    IF xattr_size < HeaderSize THEN NullAcl("EINVAL")
    ELSE LET count == (xattr_size - HeaderSize) \div AceSize
             entries == [i \in 1..count |->
                           to_smb_ace(buf, HeaderSize + (i - 1) * AceSize)]
         IN  IF IVAL(buf, 0) # <<0, GLUSTER_ACL_VERSION>> THEN NullAcl("unset")
             ELSE IF oom THEN NullAcl("ENOMEM")
             ELSE IF \E i \in 1..count : entries[i].a_type = "unknown"
             THEN NullAcl("unset")
             ELSE [null |-> FALSE, acl |-> entries, errno |-> "unset"]

\* oom: SMB_MALLOC returned NULL
gluster_to_smb_acl(buf, xattr_size, oom) ==
    IF xattr_size < HeaderSize THEN NullAcl("EINVAL")
    ELSE IF (xattr_size - HeaderSize) % AceSize # 0 THEN NullAcl("EINVAL")
    ELSE LET count == (xattr_size - HeaderSize) \div AceSize
             entries == [i \in 1..count |->
                           to_smb_ace(buf, HeaderSize + (i - 1) * AceSize)]
         IN  IF IVAL(buf, 0) # <<0, GLUSTER_ACL_VERSION>> THEN NullAcl("unset")
             ELSE IF oom THEN NullAcl("ENOMEM")
             ELSE IF \E i \in 1..count : entries[i].a_type = "unknown"
             THEN NullAcl("unset")
             ELSE [null |-> FALSE, acl |-> entries, errno |-> "unset"]

\* ---- the codec driven the way vfs_gluster_sys_acl_set_file drives it
\* (size query, buffer of that size, encode), by a caller with a buffer of
\* its own length, and read back by gluster_to_smb_acl.

AclIds == {<<0, 1000>>, <<0, 1001>>, <<32768, 1001>>}
AclPerms == {3, 5, 6}

AclEntries ==
    {[a_type |-> "SMB_ACL_USER", a_perm |-> p, uid |-> id, gid |-> Uninit32] :
        p \in AclPerms, id \in AclIds}
    \cup {[a_type |-> "SMB_ACL_GROUP", a_perm |-> p, uid |-> Uninit32, gid |-> id] :
        p \in AclPerms, id \in AclIds}
    \cup {[a_type |-> t, a_perm |-> p, uid |-> Uninit32, gid |-> Uninit32] :
        t \in {"SMB_ACL_USER_OBJ", "SMB_ACL_GROUP_OBJ", "SMB_ACL_MASK", "SMB_ACL_OTHER"},
        p \in AclPerms}
    \cup {[a_type |-> "SMB_ACL_TAG_INVALID", a_perm |-> 6,
           uid |-> Uninit32, gid |-> Uninit32]}

AclInputs == UNION {[1..n -> AclEntries] : n \in 0..MaxAclLen}

BufLens == 0..(acl_size(MaxAclLen) + 1)

NoRet == [ret |-> NoCall, errno |-> "unset", len |-> 0]

\* size = smb_to_gluster_acl(theacl, 0, 0)
acl_size_query ==
    /\ acl_pc = "start"
    /\ \E r \in smb_to_gluster_acl(theacl, NullBuf, 0) :
         /\ acl_probe' = r.ret
         /\ acl_buf' = r.buf
    /\ acl_pc' = "probed"
    /\ UNCHANGED <<theacl, acl_ret, acl_out>>
    /\ UNCHANGED <<cacheVars, threadVars, fsVars>>

\* buf = alloca(len); size = smb_to_gluster_acl(theacl, buf, len).  After a
\* size query len is the size it gave.
acl_encode ==
    /\ acl_pc \in {"start", "probed"}
    /\ \E len \in BufLens :
         /\ acl_pc = "probed" => len = acl_probe
         /\ \E r \in smb_to_gluster_acl(theacl, [i \in 1..len |-> Uninit], len) :
              /\ acl_buf' = r.buf
              /\ acl_ret' = [ret |-> r.ret, errno |-> r.errno, len |-> len]
    /\ acl_pc' = "encoded"
    /\ UNCHANGED <<theacl, acl_probe, acl_out>>
    /\ UNCHANGED <<cacheVars, threadVars, fsVars>>

\* the first ret bytes of the buffer are what glfs_setxattr stores and what a
\* later getxattr hands to gluster_to_smb_acl
acl_decode ==
    /\ acl_pc = "encoded"
    /\ acl_ret.ret >= 0
    /\ \E oom \in BOOLEAN :
         acl_out' = gluster_to_smb_acl(SubSeq(acl_buf, 1, acl_ret.ret), acl_ret.ret, oom)
    /\ acl_pc' = "decoded"
    /\ UNCHANGED <<theacl, acl_probe, acl_buf, acl_ret>>
    /\ UNCHANGED <<cacheVars, threadVars, fsVars>>

AclRest ==
    /\ acl_probe = NoCall
    /\ acl_buf = NullBuf
    /\ acl_ret = NoRet
    /\ acl_out = NullAcl("unset")

\* no codec run in the specifications of the connection cache
AclIdle == theacl = <<>> /\ acl_pc = "off" /\ AclRest

AclStart == theacl \in AclInputs /\ acl_pc = "start" /\ AclRest

\* ---- gluster_to_smb_acl on what a getxattr can hand it: any bytes at all.
\* The blobs are headers with a right or a wrong version followed by records
\* with known and unknown tags, cut off at every length.

XattrVersions == {<<0, 2>>, <<0, 1>>, <<512, 0>>}
XattrTags == {1, 2, 4, 8, 16, 32, 0, 3}
XattrPerms == {2, 10}

\* every tag with permission bits r-x, and two records with other bits
XattrRecords ==
    {[tag |-> t, perm |-> 5, id |-> <<32768, 1001>>] : t \in XattrTags}
    \cup {[tag |-> t, perm |-> p, id |-> <<32768, 1001>>] :
             t \in {GLUSTER_ACL_USER}, p \in XattrPerms}

Prefixes(b) == {SubSeq(b, 1, k) : k \in 0..Len(b)}

XattrBlobs ==
    UNION {Prefixes(SIVAL(v) \o ace_bytes(recs, 1)) :
              v \in XattrVersions,
              recs \in UNION {[1..n -> XattrRecords] : n \in 0..MaxAclLen}}

XattrStart ==
    /\ theacl = <<>>
    /\ acl_probe = NoCall
    /\ acl_buf \in XattrBlobs
    /\ acl_ret = NoRet
    /\ acl_out = NullAcl("unset")
    /\ acl_pc = "xattr"

\* result = gluster_to_smb_acl(buf, ret)
xattr_decode ==
    /\ acl_pc = "xattr"
    /\ \E oom \in BOOLEAN :
         acl_out' = gluster_to_smb_acl(acl_buf, Len(acl_buf), oom)
    /\ acl_pc' = "xattr_decoded"
    /\ UNCHANGED <<theacl, acl_probe, acl_buf, acl_ret>>
    /\ UNCHANGED <<cacheVars, threadVars, fsVars>>

(***************************************************************************)
(* smb_stat_ex_from_stat (vfs_glusterfs.c:50-74).  have_nsec: the build    *)
(* defines STAT_HAVE_NSEC; without it the tv_nsec fields keep the zero     *)
(* ZERO_STRUCTP put there.                                                 *)
(***************************************************************************)
\* a conversion that takes the birth time from the change time
stat_ex_btime_from_ctime(src, have_nsec) ==
    [st_ex_dev |-> src.st_dev,
     st_ex_ino |-> src.st_ino,
     st_ex_mode |-> src.st_mode,
     st_ex_nlink |-> src.st_nlink,
     st_ex_uid |-> src.st_uid,
     st_ex_gid |-> src.st_gid,
     st_ex_rdev |-> src.st_rdev,
     st_ex_size |-> src.st_size,
     st_ex_atime |-> [tv_sec |-> src.st_atime,
                      tv_nsec |-> IF have_nsec THEN src.st_atime_nsec ELSE 0],
     st_ex_mtime |-> [tv_sec |-> src.st_mtime,
                      tv_nsec |-> IF have_nsec THEN src.st_mtime_nsec ELSE 0],
     st_ex_ctime |-> [tv_sec |-> src.st_ctime,
                      tv_nsec |-> IF have_nsec THEN src.st_ctime_nsec ELSE 0],
     st_ex_btime |-> [tv_sec |-> src.st_ctime,
                      tv_nsec |-> IF have_nsec THEN src.st_ctime_nsec ELSE 0],
     st_ex_blksize |-> src.st_blksize,
     st_ex_blocks |-> src.st_blocks]

smb_stat_ex_from_stat(src, have_nsec) ==
    [st_ex_dev |-> src.st_dev,
     st_ex_ino |-> src.st_ino,
     st_ex_mode |-> src.st_mode,
     st_ex_nlink |-> src.st_nlink,
     st_ex_uid |-> src.st_uid,
     st_ex_gid |-> src.st_gid,
     st_ex_rdev |-> src.st_rdev,
     st_ex_size |-> src.st_size,
     st_ex_atime |-> [tv_sec |-> src.st_atime,
                      tv_nsec |-> IF have_nsec THEN src.st_atime_nsec ELSE 0],
     st_ex_mtime |-> [tv_sec |-> src.st_mtime,
                      tv_nsec |-> IF have_nsec THEN src.st_mtime_nsec ELSE 0],
     st_ex_ctime |-> [tv_sec |-> src.st_ctime,
                      tv_nsec |-> IF have_nsec THEN src.st_ctime_nsec ELSE 0],
     st_ex_btime |-> [tv_sec |-> src.st_mtime,
                      tv_nsec |-> IF have_nsec THEN src.st_mtime_nsec ELSE 0],
     st_ex_blksize |-> src.st_blksize,
     st_ex_blocks |-> src.st_blocks]

\* struct stat values a backend call can fill in: one with a different value
\* in every field, and that one with a single field changed (to zero, to a
\* large value, and for the signed size and times to a negative one)
StatBase ==
    [st_dev |-> 1, st_ino |-> 2, st_mode |-> 3, st_nlink |-> 4, st_uid |-> 5,
     st_gid |-> 6, st_rdev |-> 7, st_size |-> 8, st_atime |-> 9, st_mtime |-> 10,
     st_ctime |-> 11, st_blksize |-> 12, st_blocks |-> 13, st_atime_nsec |-> 14,
     st_mtime_nsec |-> 15, st_ctime_nsec |-> 16]

StatInputs ==
    {StatBase}
    \cup {[StatBase EXCEPT ![f] = v] : f \in DOMAIN StatBase, v \in {0, 2147483647}}
    \cup {[StatBase EXCEPT ![f] = -1] : f \in {"st_size", "st_atime", "st_mtime", "st_ctime"}}

\* a struct stat_ex nobody has filled in
NoStat == [st_ex_dev |-> Uninit]

(***************************************************************************)
(* File objects (vfs_glusterfs.c:429-462).  The server calls open_fn on a  *)
(* files_struct that is not open and close_fn on one that is.  The         *)
(* extension list of a files_struct is Samba's: VFS_ADD_FSP_EXTENSION      *)
(* hands back the extension this module already has there, or a new zeroed *)
(* one at the head of the list, or NULL when talloc fails.                 *)
(***************************************************************************)
Files == {"f1", "f2"}

\* the error codes a failing glfs_* call leaves in errno
BackendErrnos == {"ENOENT", "EIO", "ENODATA"}

\* the value vfs_gluster_open returns for success
OpenSuccess == 13371337

VFS_FETCH_FSP_EXTENSION(ext) == IF ext = <<>> THEN NULL ELSE 1

\* [p, ext]: p is the place of the extension in the list, NULL for none
VFS_ADD_FSP_EXTENSION(ext, oom) ==
    IF ext # <<>> THEN [p |-> 1, ext |-> ext]
    ELSE IF oom THEN [p |-> NULL, ext |-> ext]
    ELSE [p |-> 1, ext |-> <<NULL>> \o ext]

VFS_REMOVE_FSP_EXTENSION(ext) == IF ext = <<>> THEN ext ELSE Tail(ext)

\* the backend call vfs_gluster_open makes for these flags
open_call(flags) ==
    IF "O_DIRECTORY" \in flags THEN "glfs_opendir"
    ELSE IF "O_CREAT" \in flags THEN "glfs_creat"
    ELSE "glfs_open"

\* vfs_gluster_open after the backend call gave glfd (NULL: it failed):
\* [ret, ext, segv]
open_fn(ext, glfd, oom) ==
    IF glfd = NULL THEN [ret |-> -1, ext |-> ext, segv |-> FALSE]
    ELSE LET a == VFS_ADD_FSP_EXTENSION(ext, oom)
         IN  IF a.p = NULL
             THEN \* *p_tmp = glfd with p_tmp == NULL
                  [ret |-> NoCall, ext |-> a.ext, segv |-> TRUE]
             ELSE [ret |-> OpenSuccess, ext |-> [a.ext EXCEPT ![a.p] = glfd],
                   segv |-> FALSE]

\* a close that leaves the extension on the file object
close_keeping_extension(ext) ==
    LET p == VFS_FETCH_FSP_EXTENSION(ext)
    IN  IF p = NULL THEN [glfd |-> NULL, ext |-> ext, segv |-> TRUE]
        ELSE [glfd |-> ext[p], ext |-> ext, segv |-> FALSE]

\* vfs_gluster_close up to its backend call: [glfd, ext, segv]
close_fn(ext) ==
    LET p == VFS_FETCH_FSP_EXTENSION(ext)
    IN  IF p = NULL
        THEN \* glfd = *(glfs_fd_t **)NULL
             [glfd |-> NULL, ext |-> ext, segv |-> TRUE]
        ELSE [glfd |-> ext[p], ext |-> VFS_REMOVE_FSP_EXTENSION(ext), segv |-> FALSE]

\* what a glfs_close or glfs_closedir of descriptor g does to the process:
\* nothing, unless g was released before, and then it may die on it or not
FreedUse(fds, g) == IF fds[g].released > 0 THEN BOOLEAN ELSE {FALSE}

NewGlfd(call) == [call |-> call, attached |-> 0, detached |-> 0, released |-> 0]

\* the list of extensions before and after: what was attached, what was detached
Attach(fds, before, after) ==
    [g \in 1..Len(fds) |->
        IF g \in {after[i] : i \in 1..Len(after)} \ {before[i] : i \in 1..Len(before)}
        THEN [fds[g] EXCEPT !.attached = @ + 1]
        ELSE IF g \in {before[i] : i \in 1..Len(before)} \ {after[i] : i \in 1..Len(after)}
        THEN [fds[g] EXCEPT !.detached = @ + 1]
        ELSE fds[g]]

FspFrame == UNCHANGED <<cacheVars, threadVars, aclVars, dirVars, opsVars, cmpVars, storeVars>>

vfs_gluster_open(f) ==
    /\ ~segv
    /\ ~fsp_opened[f]
    /\ \E flags \in SUBSET {"O_DIRECTORY", "O_CREAT"} :
         \/ \* the backend call fails
            \E e \in BackendErrnos :
               LET r == open_fn(fsp_ext[f], NULL, FALSE)
               IN  /\ errno' = e
                   /\ fsp_ext' = [fsp_ext EXCEPT ![f] = r.ext]
                   /\ last_op' = [op |-> "open", fsp |-> f, ret |-> r.ret,
                                   calls |-> <<open_call(flags)>>, backend |-> e]
                   /\ UNCHANGED <<segv, fsp_opened, glfds>>
         \/ \* the backend call hands out a new descriptor
            /\ Len(glfds) < MaxFds
            /\ \E oom \in BOOLEAN :
                 LET glfd == Len(glfds) + 1
                     r == open_fn(fsp_ext[f], glfd, oom)
                 IN  /\ fsp_ext' = [fsp_ext EXCEPT ![f] = r.ext]
                     /\ glfds' = Attach(Append(glfds, NewGlfd(open_call(flags))),
                                        fsp_ext[f], r.ext)
                     /\ segv' = r.segv
                     /\ fsp_opened' = [fsp_opened EXCEPT ![f] = (r.ret = OpenSuccess)]
                     /\ last_op' = [op |-> "open", fsp |-> f, ret |-> r.ret,
                                     calls |-> <<open_call(flags)>>, backend |-> "ok"]
                     /\ UNCHANGED errno
    /\ FspFrame

vfs_gluster_close(f) ==
    /\ ~segv
    /\ fsp_opened[f]
    /\ LET r == close_fn(fsp_ext[f])
       IN  IF r.segv
           THEN /\ segv' = TRUE
                /\ last_op' = [op |-> "close", fsp |-> f, ret |-> NoCall,
                                calls |-> <<>>, backend |-> "ok"]
                /\ UNCHANGED <<errno, fsp_ext, fsp_opened, glfds>>
           ELSE \E b \in {"ok"} \cup BackendErrnos :
                  /\ fsp_ext' = [fsp_ext EXCEPT ![f] = r.ext]
                  /\ glfds' = [Attach(glfds, fsp_ext[f], r.ext)
                                 EXCEPT ![r.glfd].released = @ + 1]
                  /\ fsp_opened' = [fsp_opened EXCEPT ![f] = FALSE]
                  /\ errno' = IF b = "ok" THEN errno ELSE b
                  /\ last_op' = [op |-> "close", fsp |-> f,
                                  ret |-> IF b = "ok" THEN 0 ELSE -1,
                                  calls |-> <<"glfs_close">>, backend |-> b]
                  /\ segv' \in FreedUse(glfds, r.glfd)
    /\ FspFrame

(***************************************************************************)
(* Directory streams of file objects (vfs_glusterfs.c:351-361).  The       *)
(* server calls fdopendir once on a file object it opened with O_DIRECTORY *)
(* and closedir once on a DIR * it got; the DIR * is the descriptor of the *)
(* file object itself.                                                     *)
(***************************************************************************)
\* return (DIR *) *(glfs_fd_t **)VFS_FETCH_FSP_EXTENSION(handle, fsp)
fdopendir_fn(ext) ==
    LET p == VFS_FETCH_FSP_EXTENSION(ext)
    IN  IF p = NULL THEN [dirp |-> NULL, segv |-> TRUE]
        ELSE [dirp |-> ext[p], segv |-> FALSE]

vfs_gluster_fdopendir(f) ==
    /\ ~segv
    /\ fsp_opened[f]
    /\ LET r == fdopendir_fn(fsp_ext[f])
       IN  /\ ~r.segv
           /\ glfds[r.dirp].call = "glfs_opendir"
           /\ r.dirp \notin dirps.out \cup dirps.closed
           /\ dirps' = [dirps EXCEPT !.out = @ \cup {r.dirp}]
           /\ last_op' = [op |-> "fdopendir", fsp |-> f, ret |-> r.dirp,
                           calls |-> <<>>, backend |-> "none"]
    /\ UNCHANGED <<errno, segv, fspVars, xattrs>>
    /\ UNCHANGED <<cacheVars, threadVars, aclVars, dirVars, opsVars, cmpVars>>

\* vfs_gluster_closedir on a DIR * that came from vfs_gluster_fdopendir:
\* return glfs_closedir((void *)dirp)
closedir_fdopened(dirp) ==
    /\ ~segv
    /\ dirp \in dirps.out
    /\ \E b \in {"ok"} \cup BackendErrnos :
         /\ glfds' = [glfds EXCEPT ![dirp].released = @ + 1]
         /\ errno' = IF b = "ok" THEN errno ELSE b
         /\ last_op' = [op |-> "closedir", fsp |-> "none",
                         ret |-> IF b = "ok" THEN 0 ELSE -1,
                         calls |-> <<"glfs_closedir">>, backend |-> b]
    /\ segv' \in FreedUse(glfds, dirp)
    /\ dirps' = [out |-> dirps.out \ {dirp}, closed |-> dirps.closed \cup {dirp}]
    /\ UNCHANGED <<fsp_ext, fsp_opened, xattrs>>
    /\ UNCHANGED <<cacheVars, threadVars, aclVars, dirVars, opsVars, cmpVars>>

NextFdir ==
    \/ \E f \in Files : vfs_gluster_open(f)
    \/ \E f \in Files : vfs_gluster_close(f)
    \/ \E f \in Files : vfs_gluster_fdopendir(f)
    \/ \E g \in 1..MaxFds : closedir_fdopened(g)

(***************************************************************************)
(* Directory streams (vfs_glusterfs.c:336-410).  The backend's stream is   *)
(* its entries and the offset it stands at: 0 at the start, afterwards the *)
(* d_off of the entry handed out last.  glfs_telldir gives that offset,    *)
(* glfs_seekdir sets it, glfs_readdir_r hands out the entry that follows   *)
(* it.  A glfs_* call that succeeds leaves errno alone.                    *)
(***************************************************************************)
\* d_off of the i-th entry: an opaque number, not the index
DirOff(i) == 16 * i + 5

DirEntry(i) ==
    [d_ino |-> 100 + i, d_off |-> DirOff(i), d_reclen |-> 24, d_type |-> 8,
     d_name |-> <<96 + i>>]

\* what glfs_readdirplus_r puts into stat for the i-th entry
DirStat(i) == [StatBase EXCEPT !.st_ino = 100 + i]

\* index of the entry glfs_readdir_r hands out at this offset; past the last
\* one when the stream is exhausted
glfs_next(entries, offset) ==
    IF offset = 0 THEN 1
    ELSE (CHOOSE i \in 1..Len(entries) : entries[i].d_off = offset) + 1

glfs_telldir(offset) == offset

glfs_seekdir(offset, to) == to

\* strncpy(dst, src, n) read back as a string
strncpy(src, n) == IF Len(src) <= n THEN src ELSE SubSeq(src, 1, n)

\* a seek that ignores the cursor
seekdir_to_start(offset, to) == glfs_seekdir(offset, 0)

\* vfs_gluster_seekdir: the stream's offset afterwards
seekdir_fn(offset, to) == glfs_seekdir(offset, to)

\* a rewind that does nothing
rewinddir_noop(offset) == offset

\* vfs_gluster_rewinddir: the stream's offset afterwards
rewinddir_fn(offset) == glfs_seekdir(offset, 0)

\* errno after a backend call with outcome b that started with errno before;
\* the second definition is one that clears errno on success
errno_cleared_on_success(before, b) == IF b = "ok" THEN "0" ELSE b

errno_after(before, b) == IF b = "ok" THEN before ELSE b

\* what vfs_gluster_readdir returns: NULL, or the address of its static result
readdir_ret(ret, dirent) ==
    IF ret < 0 \/ dirent = NULL THEN "NULL" ELSE "&result"

\* the static result filled from entry dirent
readdir_result(dirent) ==
    [d_ino |-> dirent.d_ino, d_off |-> dirent.d_off, d_reclen |-> dirent.d_reclen,
     d_type |-> dirent.d_type, d_name |-> strncpy(dirent.d_name, 256)]

DirFrame ==
    UNCHANGED <<cacheVars, threadVars, aclVars, segv, fspVars, opsVars, cmpVars, storeVars>>

vfs_gluster_opendir ==
    /\ ~dir_open
    /\ \/ \E e \in BackendErrnos :
            /\ errno' = errno_after(errno, e)
            /\ last_op' = [op |-> "opendir", ret |-> "NULL", backend |-> e,
                            calls |-> <<"glfs_opendir">>]
            /\ UNCHANGED dirVars
       \/ \E n \in 0..MaxDirLen :
            /\ dir_open' = TRUE
            /\ dir_entries' = [i \in 1..n |-> DirEntry(i)]
            /\ dir_offset' = 0
            /\ dir_cursors' = {}
            /\ errno' = errno_after(errno, "ok")
            /\ last_op' = [op |-> "opendir", ret |-> "dirp", backend |-> "ok",
                            calls |-> <<"glfs_opendir">>]
    /\ DirFrame

vfs_gluster_closedir ==
    /\ dir_open
    /\ dir_open' = FALSE
    /\ dir_entries' = <<>>
    /\ dir_offset' = 0
    /\ dir_cursors' = {}
    /\ \E b \in {"ok"} \cup BackendErrnos :
         /\ errno' = errno_after(errno, b)
         /\ last_op' = [op |-> "closedir", ret |-> IF b = "ok" THEN 0 ELSE -1,
                         backend |-> b, calls |-> <<"glfs_closedir">>]
    /\ DirFrame

\* want_sbuf: sbuf != NULL
vfs_gluster_readdir ==
    /\ dir_open
    /\ \E want_sbuf \in BOOLEAN, b \in {"ok"} \cup BackendErrnos, have_nsec \in BOOLEAN :
         LET i == glfs_next(dir_entries, dir_offset)
             ret == IF b = "ok" THEN 0 ELSE -1
             dirent == IF b = "ok" /\ i <= Len(dir_entries) THEN i ELSE NULL
             r == readdir_ret(ret, dirent)
         IN  /\ want_sbuf \/ ~have_nsec
             /\ dir_offset' = IF dirent # NULL THEN dir_entries[i].d_off ELSE dir_offset
             /\ errno' = errno_after(errno, b)
             /\ last_op' =
                  [op |-> "readdir", ret |-> r, backend |-> b,
                   cause |-> IF b # "ok" THEN "error"
                             ELSE IF dirent = NULL THEN "end" ELSE "entry",
                   errno_before |-> errno,
                   after |-> last_op.op,
                   expect |-> IF last_op.op = "seekdir" THEN last_op.next ELSE 0,
                   result |-> IF r = "NULL" THEN <<>>
                              ELSE <<readdir_result(dir_entries[i])>>,
                   sbuf |-> IF r # "NULL" /\ want_sbuf
                            THEN smb_stat_ex_from_stat(DirStat(i), have_nsec)
                            ELSE NoStat,
                   calls |-> IF want_sbuf THEN <<"glfs_readdirplus_r">>
                             ELSE <<"glfs_readdir_r">>]
    /\ UNCHANGED <<dir_open, dir_entries, dir_cursors>>
    /\ DirFrame

\* the caller keeps the cursor; next is the entry a readdir would have
\* handed out at the time of the call
vfs_gluster_telldir ==
    /\ dir_open
    /\ LET c == glfs_telldir(dir_offset)
       IN  /\ dir_cursors' = dir_cursors
                             \cup {[cursor |-> c, next |-> glfs_next(dir_entries, dir_offset)]}
           /\ last_op' = [op |-> "telldir", ret |-> c, backend |-> "ok",
                           calls |-> <<"glfs_telldir">>]
    /\ UNCHANGED <<errno, dir_open, dir_entries, dir_offset>>
    /\ DirFrame

vfs_gluster_seekdir ==
    /\ dir_open
    /\ \E c \in dir_cursors :
         /\ dir_offset' = seekdir_fn(dir_offset, c.cursor)
         /\ last_op' = [op |-> "seekdir", offset |-> c.cursor, next |-> c.next,
                         backend |-> "ok", calls |-> <<"glfs_seekdir">>]
    /\ UNCHANGED <<errno, dir_open, dir_entries, dir_cursors>>
    /\ DirFrame

vfs_gluster_rewinddir ==
    /\ dir_open
    /\ dir_offset' = rewinddir_fn(dir_offset)
    /\ last_op' = [op |-> "rewinddir", backend |-> "ok", calls |-> <<"glfs_seekdir">>]
    /\ UNCHANGED <<errno, dir_open, dir_entries, dir_cursors>>
    /\ DirFrame

DirIdle ==
    /\ dir_open = FALSE
    /\ dir_entries = <<>>
    /\ dir_offset = 0
    /\ dir_cursors = {}

NextDir ==
    \/ vfs_gluster_opendir
    \/ vfs_gluster_closedir
    \/ vfs_gluster_readdir
    \/ vfs_gluster_telldir
    \/ vfs_gluster_seekdir
    \/ vfs_gluster_rewinddir

(***************************************************************************)
(* Operations this module answers without the backend                      *)
(* (vfs_glusterfs.c:277-291, 496-511, 716-728, 780-797, 921-941).  Each    *)
(* is a function body of one or two statements; value is what it returns,  *)
(* errno the value it assigns to errno ("unchanged" for no assignment).    *)
(***************************************************************************)
UnsupportedOps ==
    {"get_quota", "set_quota", "sendfile", "recvfile", "kernel_flock",
     "linux_setlease", "notify_watch", "chflags", "aio_force", "is_offline",
     "set_offline"}

\* a table in which every one of them fails with ENOSYS
unsupported_all_enosys(op) == [value |-> "-1", errno |-> "ENOSYS"]

unsupported(op) ==
    CASE op \in {"get_quota", "set_quota", "linux_setlease", "chflags"} ->
            [value |-> "-1", errno |-> "ENOSYS"]
      [] op \in {"sendfile", "recvfile", "set_offline"} ->
            [value |-> "-1", errno |-> "ENOTSUP"]
      [] op = "notify_watch" ->
            [value |-> "NT_STATUS_NOT_IMPLEMENTED", errno |-> "unchanged"]
      [] op = "kernel_flock" ->
            [value |-> "0", errno |-> "unchanged"]
      [] op \in {"aio_force", "is_offline"} ->
            [value |-> "false", errno |-> "unchanged"]

\* none of them reads its arguments
vfs_gluster_unsupported ==
    /\ ~segv
    /\ \E op \in UnsupportedOps :
         LET r == unsupported(op)
         IN  /\ errno' = IF r.errno = "unchanged" THEN errno ELSE r.errno
             /\ last_op' = [op |-> op, value |-> r.value, calls |-> <<>>]
    /\ UNCHANGED <<segv, fspVars>>
    /\ FspFrame

(***************************************************************************)
(* Path operations (vfs_glusterfs.c:527-542, 585-589, 799-829).            *)
(***************************************************************************)
\* NAME_MAX of <limits.h>
NAME_MAX == 255

\* "user.glusterfs.get_real_filename:"
RealFilenamePrefix ==
    <<117, 115, 101, 114, 46, 103, 108, 117, 115, 116, 101, 114, 102,
      115, 46, 103, 101, 116, 95, 114, 101, 97, 108, 95, 102, 105, 108,
      101, 110, 97, 109, 101, 58>>

\* requested names: the letter a, n times, with lengths around NAME_MAX
RequestedName(n) == [i \in 1..n |-> 97]
NameLens == {0, 1, NAME_MAX - 1, NAME_MAX, NAME_MAX + 1}

\* the names the backend can answer with
FoundNames == {<<65>>, RequestedName(NAME_MAX)}

strlen(s) == Len(s)

\* snprintf(buf, size, "%s%s", ...) read back as a string
snprintf(size, s) == IF Len(s) < size THEN s ELSE SubSeq(s, 1, size - 1)

\* if (strlen(name) >= NAME_MAX)
name_too_long(name) == strlen(name) >= NAME_MAX

\* a failure path that hands the backend's code on as it is
getxattr_errno_unchanged(e) == e

\* if (errno == ENODATA) errno = EOPNOTSUPP
real_filename_errno(e) == IF e = "ENODATA" THEN "EOPNOTSUPP" ELSE e

OpsFrame ==
    UNCHANGED <<cacheVars, threadVars, aclVars, segv, fspVars, dirVars, cmpVars, storeVars>>

vfs_gluster_stat ==
    /\ \/ \E e \in BackendErrnos :
            /\ errno' = errno_after(errno, e)
            /\ last_op' = [op |-> "stat", ret |-> -1, backend |-> e,
                            calls |-> <<"glfs_stat">>]
            /\ UNCHANGED smb_fname_st
       \/ \E st \in StatInputs, have_nsec \in BOOLEAN :
            /\ errno' = errno_after(errno, "ok")
            /\ smb_fname_st' = smb_stat_ex_from_stat(st, have_nsec)
            /\ last_op' = [op |-> "stat", ret |-> 0, backend |-> "ok",
                            calls |-> <<"glfs_stat">>, src |-> st,
                            have_nsec |-> have_nsec]
    /\ OpsFrame

\* return glfs_unlink(handle->data, smb_fname->base_name)
vfs_gluster_unlink ==
    /\ \E b \in {"ok"} \cup BackendErrnos :
         /\ errno' = errno_after(errno, b)
         /\ last_op' = [op |-> "unlink", ret |-> IF b = "ok" THEN 0 ELSE -1,
                         backend |-> b, calls |-> <<"glfs_unlink">>]
    /\ UNCHANGED smb_fname_st
    /\ OpsFrame

\* oom: talloc_strdup returned NULL
vfs_gluster_get_real_filename ==
    /\ \E n \in NameLens :
         LET name == RequestedName(n)
             key_buf == snprintf(NAME_MAX + 64, RealFilenamePrefix \o name)
         IN  IF name_too_long(name)
             THEN /\ errno' = "ENAMETOOLONG"
                  /\ last_op' = [op |-> "get_real_filename", name |-> name, ret |-> -1,
                                  backend |-> "none", calls |-> <<>>,
                                  key |-> <<>>, found_name |-> <<>>]
             ELSE \/ \E e \in BackendErrnos :
                       /\ errno' = real_filename_errno(errno_after(errno, e))
                       /\ last_op' = [op |-> "get_real_filename", name |-> name,
                                       ret |-> -1, backend |-> e,
                                       calls |-> <<"glfs_getxattr">>,
                                       key |-> key_buf, found_name |-> <<>>]
                  \/ \E val \in FoundNames, oom \in BOOLEAN :
                       /\ errno' = IF oom THEN "ENOMEM" ELSE errno_after(errno, "ok")
                       /\ last_op' = [op |-> "get_real_filename", name |-> name,
                                       ret |-> IF oom THEN -1 ELSE 0, backend |-> "ok",
                                       calls |-> <<"glfs_getxattr">>,
                                       key |-> key_buf,
                                       found_name |-> IF oom THEN <<>> ELSE val]
    /\ UNCHANGED smb_fname_st
    /\ OpsFrame

NextOps ==
    \/ vfs_gluster_stat
    \/ vfs_gluster_unlink
    \/ vfs_gluster_get_real_filename

(***************************************************************************)
(* Storing an ACL (vfs_glusterfs.c:1273-1327).  The server calls           *)
(* sys_acl_set_fd on a file object that is open; the runs start with one   *)
(* file object open and may close it.                                      *)
(***************************************************************************)
AclTypes == {"SMB_ACL_TYPE_ACCESS", "SMB_ACL_TYPE_DEFAULT", "SMB_ACL_TYPE_INVALID"}

\* the ACLs handed to the set operations: entries of a known kind and of no
\* known kind
SetEntries ==
    {[a_type |-> t, a_perm |-> 6, uid |-> Uninit32, gid |-> Uninit32] :
        t \in {"SMB_ACL_USER_OBJ", "SMB_ACL_TAG_INVALID"}}

\* the file object the fd variant is called on
SetFile == "f1"

SetAcls == UNION {[1..n -> SetEntries] : n \in 0..MaxAclLen}

\* a switch whose default branch takes the access key
acl_key_default_access(acltype) ==
    IF acltype = "SMB_ACL_TYPE_DEFAULT"
    THEN [ok |-> TRUE, key |-> "system.posix_acl_default"]
    ELSE [ok |-> TRUE, key |-> "system.posix_acl_access"]

\* switch (acltype): the key, or not ok for errno = EINVAL; return -1
acl_key(acltype) ==
    CASE acltype = "SMB_ACL_TYPE_ACCESS" ->
            [ok |-> TRUE, key |-> "system.posix_acl_access"]
      [] acltype = "SMB_ACL_TYPE_DEFAULT" ->
            [ok |-> TRUE, key |-> "system.posix_acl_default"]
      [] OTHER -> [ok |-> FALSE, key |-> "none"]

\* size = smb_to_gluster_acl(theacl, 0, 0); buf = alloca(size);
\* size = smb_to_gluster_acl(theacl, buf, size): the results [ret, errno, buf]
acl_to_buf(acl) ==
    LET size == (CHOOSE r \in smb_to_gluster_acl(acl, NullBuf, 0) : TRUE).ret
    IN  smb_to_gluster_acl(acl, [i \in 1..size |-> Uninit], size)

SetFrame ==
    /\ UNCHANGED <<segv, fspVars, dirps>>
    /\ UNCHANGED <<cacheVars, threadVars, aclVars, dirVars, opsVars, cmpVars>>

\* from the encode on: if (size == -1) return -1; ret = glfs_(f)setxattr(...)
acl_store(op, acltype, acl, key, call) ==
    \E r \in acl_to_buf(acl) :
        IF r.ret = -1
        THEN /\ errno' = r.errno
             /\ last_op' = [op |-> op, acltype |-> acltype, acl |-> acl, ret |-> -1,
                             calls |-> <<>>, backend |-> "none"]
             /\ UNCHANGED xattrs
        ELSE \E b \in {"ok"} \cup BackendErrnos :
               /\ errno' = IF b = "ok" THEN errno ELSE b
               /\ xattrs' = IF b = "ok"
                            THEN [xattrs EXCEPT ![key] = SubSeq(r.buf, 1, r.ret)]
                            ELSE xattrs
               /\ last_op' = [op |-> op, acltype |-> acltype, acl |-> acl,
                               ret |-> IF b = "ok" THEN 0 ELSE -1,
                               calls |-> <<call>>, backend |-> b]

vfs_gluster_sys_acl_set_file ==
    /\ ~segv
    /\ \E acltype \in AclTypes, acl \in SetAcls :
         LET k == acl_key(acltype)
         IN  IF ~k.ok
             THEN /\ errno' = "EINVAL"
                  /\ last_op' = [op |-> "sys_acl_set_file", acltype |-> acltype,
                                  acl |-> acl, ret |-> -1, calls |-> <<>>,
                                  backend |-> "none"]
                  /\ UNCHANGED xattrs
             ELSE acl_store("sys_acl_set_file", acltype, acl, k.key, "glfs_setxattr")
    /\ SetFrame

vfs_gluster_sys_acl_set_fd(f) ==
    /\ ~segv
    /\ fsp_opened[f]
    /\ \E acl \in SetAcls :
         acl_store("sys_acl_set_fd", "SMB_ACL_TYPE_ACCESS", acl,
                   "system.posix_acl_access", "glfs_fsetxattr")
    /\ SetFrame

NextSet ==
    \/ vfs_gluster_close(SetFile)
    \/ vfs_gluster_sys_acl_set_file
    \/ vfs_gluster_sys_acl_set_fd(SetFile)

(***************************************************************************)
(* gluster_ace_cmp and gluster_acl_normalize on arrays of struct           *)
(* gluster_ace (vfs_glusterfs.c:971-991).  The ids are 1000, 0x60000000,   *)
(* 0x800003E8, 0xC0000000 and 0xFFFFFFFF (GLUSTER_ACL_UNDEFINED_ID).       *)
(***************************************************************************)
CmpIds == {<<0, 1000>>, <<24576, 0>>, <<32768, 1000>>, <<49152, 0>>, <<65535, 65535>>}

CmpAces ==
    {[tag |-> t, perm |-> GLUSTER_ACL_READ, id |-> id] :
        t \in {GLUSTER_ACL_USER, GLUSTER_ACL_GROUP}, id \in CmpIds}

CmpStart ==
    /\ cmp_aces \in [1..MaxCmpLen -> CmpAces]
    /\ cmp_ret = <<>>
    /\ cmp_sorted = <<>>

\* the sign of an int
Sgn(x) == IF x < 0 THEN -1 ELSE IF x > 0 THEN 1 ELSE 0

CmpFrame ==
    UNCHANGED <<cacheVars, threadVars, aclVars, errno, last_op, segv, fspVars, dirVars,
                opsVars, storeVars>>

\* gluster_ace_cmp called on every pair of records of the array
compare_all ==
    /\ cmp_ret = <<>>
    /\ cmp_ret' = [i \in 1..Len(cmp_aces) |->
                     [j \in 1..Len(cmp_aces) |->
                         Sgn(gluster_ace_cmp(cmp_aces[i], cmp_aces[j]))]]
    /\ UNCHANGED <<cmp_aces, cmp_sorted>>
    /\ CmpFrame

\* gluster_acl_normalize(acl, count)
normalize ==
    /\ cmp_sorted = <<>>
    /\ cmp_sorted' \in gluster_acl_normalize(cmp_aces)
    /\ UNCHANGED <<cmp_aces, cmp_ret>>
    /\ CmpFrame

NextCmp == compare_all \/ normalize

\* no array handed to the comparator
CmpIdle == cmp_aces = <<>> /\ cmp_ret = <<>> /\ cmp_sorted = <<>>

AclKeys == {"system.posix_acl_access", "system.posix_acl_default"}

\* the file has no ACL attribute and no DIR * is out
StoreIdle == xattrs = [k \in AclKeys |-> <<>>] /\ dirps = [out |-> {}, closed |-> {}]

NoOp == [op |-> "none"]

FsRest ==
    /\ errno = "0"
    /\ last_op = NoOp
    /\ segv = FALSE
    /\ fsp_ext = [f \in Files |-> <<>>]
    /\ fsp_opened = [f \in Files |-> FALSE]
    /\ glfds = <<>>
    /\ DirIdle
    /\ smb_fname_st = NoStat
    /\ StoreIdle

FsIdle == FsRest /\ CmpIdle

\* vfs_gluster_open(SetFile) with no flag has just returned OpenSuccess
SetFileOpen ==
    LET r == open_fn(<<>>, 1, FALSE)
    IN  /\ errno = "0"
        /\ last_op = [op |-> "open", fsp |-> SetFile, ret |-> r.ret,
                      calls |-> <<open_call({})>>, backend |-> "ok"]
        /\ segv = r.segv
        /\ fsp_ext = [f \in Files |-> IF f = SetFile THEN r.ext ELSE <<>>]
        /\ fsp_opened = [f \in Files |-> f = SetFile]
        /\ glfds = Attach(<<NewGlfd(open_call({}))>>, <<>>, r.ext)
        /\ DirIdle
        /\ smb_fname_st = NoStat
        /\ StoreIdle
        /\ CmpIdle

NextFsp ==
    \/ \E f \in Files : vfs_gluster_open(f)
    \/ \E f \in Files : vfs_gluster_close(f)
    \/ vfs_gluster_unsupported

CacheInit ==
    /\ glfs_preopened = <<>>
    /\ handle_data = [s \in Shares |-> NULL]
    /\ attached = [s \in Shares |-> FALSE]
    /\ last_call = [op |-> "none", share |-> "none", ret |-> 0, fs |-> NULL,
                     failed |-> "none", glfs_new |-> FALSE, glfs_init |-> FALSE]
    /\ glfs_new_calls = 0
    /\ fs_fini = <<>>
    /\ acquired = <<>>
    /\ released = <<>>
    /\ uaf = FALSE
    /\ crashed = FALSE

ThreadsIdle ==
    /\ pc = [s \in Shares |-> "idle"]
    /\ t_fs = [s \in Shares |-> NULL]
    /\ t_tmp = [s \in Shares |-> 0]

vars == <<cacheVars, threadVars, aclVars, fsVars>>

Init == CacheInit /\ ThreadsIdle /\ AclIdle /\ FsIdle

Next == \E s \in Shares : vfs_gluster_connect(s) \/ vfs_gluster_disconnect(s)

Spec == Init /\ [][Next]_vars

InitAcl == CacheInit /\ ThreadsIdle /\ AclStart /\ FsIdle

NextAcl == acl_size_query \/ acl_encode \/ acl_decode

SpecAcl == InitAcl /\ [][NextAcl]_vars

InitXattr == CacheInit /\ ThreadsIdle /\ XattrStart /\ FsIdle

NextXattr == xattr_decode

SpecXattr == InitXattr /\ [][NextXattr]_vars

SpecFsp == Init /\ [][NextFsp]_vars

SpecDir == Init /\ [][NextDir]_vars

SpecOps == Init /\ [][NextOps]_vars

SpecFdir == Init /\ [][NextFdir]_vars

InitSet == CacheInit /\ ThreadsIdle /\ AclIdle /\ SetFileOpen

SpecSet == InitSet /\ [][NextSet]_vars

InitCmp == CacheInit /\ ThreadsIdle /\ AclIdle /\ FsRest /\ CmpStart

SpecCmp == InitCmp /\ [][NextCmp]_vars

-----------------------------------------------------------------------------
(***************************************************************************)
(* The same two calls as the steps of one thread per share.  The file      *)
(* takes no lock and uses no atomic operation (glfs_preopened is a plain   *)
(* static list), so calls made from several threads interleave between     *)
(* these steps.  A step is at least one statement: the walk of the list up *)
(* to the matching entry is one step, and --entry->ref is a read followed  *)
(* by a write, as a plain int decrement compiles.  Coarser steps than the  *)
(* machine's only remove interleavings; every run here is a run of the     *)
(* code.                                                                   *)
(***************************************************************************)

Return(s, op, ret, fs, failed, new, init) ==
    /\ pc' = [pc EXCEPT ![s] = "idle"]
    /\ last_call' = [op |-> op, share |-> s, ret |-> ret, fs |-> fs, failed |-> failed,
                     glfs_new |-> new, glfs_init |-> init]

\* vfs_gluster_connect up to the test of what glfs_find_preopened returned
conn_find(s) ==
    /\ ~crashed
    /\ pc[s] = "idle"
    /\ ~attached[s]
    /\ LET found == glfs_find_preopened(glfs_preopened, ShareVolume(s),
                                        ShareConnectPath(s))
       IN  IF found.fs # NULL
           THEN /\ acquired[found.fs] < MaxAcquires
                /\ glfs_preopened' = found.list
                /\ handle_data' = [handle_data EXCEPT ![s] = found.fs]
                /\ attached' = [attached EXCEPT ![s] = TRUE]
                /\ acquired' = [acquired EXCEPT ![found.fs] = acquired[found.fs] + 1]
                /\ Return(s, "connect", 0, found.fs, "none", FALSE, FALSE)
                /\ UNCHANGED <<t_fs>>
           ELSE /\ glfs_new_calls + Cardinality({u \in Shares : pc[u] = "c_new"})
                       < MaxSessions
                /\ pc' = [pc EXCEPT ![s] = "c_new"]
                /\ t_fs' = [t_fs EXCEPT ![s] = NULL]
                /\ UNCHANGED <<glfs_preopened, handle_data, attached, acquired, last_call>>
    /\ UNCHANGED <<glfs_new_calls, fs_fini, released, uaf, crashed, t_tmp>>
    /\ UNCHANGED <<aclVars, fsVars>>

\* glfs_new, the three glfs_set_ calls and glfs_init; on failure the jump to done
conn_new(s) ==
    /\ ~crashed
    /\ pc[s] = "c_new"
    /\ glfs_new_calls' = glfs_new_calls + 1
    /\ \E fail \in (FailPoints \ {"glfs_set_preopened"}) \cup {"none"} :
         LET new_fs == Len(fs_fini) + 1
         IN  IF fail = "glfs_new"
             THEN /\ Return(s, "connect", -1, NULL, fail, TRUE, FALSE)
                  /\ UNCHANGED <<fs_fini, acquired, released, t_fs>>
             ELSE /\ acquired' = NewSession(acquired)
                  /\ released' = NewSession(released)
                  /\ IF fail = "none"
                     THEN /\ fs_fini' = NewSession(fs_fini)
                          /\ t_fs' = [t_fs EXCEPT ![s] = new_fs]
                          /\ pc' = [pc EXCEPT ![s] = "c_set"]
                          /\ UNCHANGED last_call
                     ELSE /\ fs_fini' = fini_all(NewSession(fs_fini), <<new_fs>>)
                          /\ Return(s, "connect", -1, new_fs, fail, TRUE,
                                    fail = "glfs_init")
                          /\ UNCHANGED t_fs
    /\ UNCHANGED <<glfs_preopened, handle_data, attached, uaf, crashed, t_tmp>>
    /\ UNCHANGED <<aclVars, fsVars>>

\* glfs_set_preopened and the code at done
conn_register(s) ==
    /\ ~crashed
    /\ pc[s] = "c_set"
    /\ \E oom \in BOOLEAN :
         LET reg == glfs_set_preopened(glfs_preopened, ShareVolume(s),
                                       ShareConnectPath(s), t_fs[s], oom)
         IN  /\ glfs_preopened' = reg.list
             /\ IF reg.ret < 0
                THEN /\ fs_fini' = fini_all(fs_fini, <<t_fs[s]>>)
                     /\ Return(s, "connect", -1, t_fs[s], "glfs_set_preopened", TRUE, TRUE)
                     /\ UNCHANGED <<handle_data, attached, acquired>>
                ELSE /\ handle_data' = [handle_data EXCEPT ![s] = t_fs[s]]
                     /\ attached' = [attached EXCEPT ![s] = TRUE]
                     /\ acquired' = [acquired EXCEPT ![t_fs[s]] = acquired[t_fs[s]] + 1]
                     /\ Return(s, "connect", 0, t_fs[s], "none", TRUE, TRUE)
                     /\ UNCHANGED fs_fini
    /\ UNCHANGED <<glfs_new_calls, released, uaf, crashed, t_fs, t_tmp>>
    /\ UNCHANGED <<aclVars, fsVars>>

\* vfs_gluster_disconnect: the walk of glfs_clear_preopened up to entry->fs == fs
disc_find(s) ==
    /\ ~crashed
    /\ pc[s] = "idle"
    /\ attached[s]
    /\ attached' = [attached EXCEPT ![s] = FALSE]
    /\ released' = [released EXCEPT ![handle_data[s]] = released[handle_data[s]] + 1]
    /\ t_fs' = [t_fs EXCEPT ![s] = handle_data[s]]
    /\ IF EntriesOf(glfs_preopened, handle_data[s]) = {}
       THEN Return(s, "disconnect", 0, handle_data[s], "none", FALSE, FALSE)
       ELSE pc' = [pc EXCEPT ![s] = "d_load"] /\ UNCHANGED last_call
    /\ UNCHANGED <<glfs_preopened, handle_data, glfs_new_calls, fs_fini, acquired,
                   uaf, crashed, t_tmp>>
    /\ UNCHANGED <<aclVars, fsVars>>

(***************************************************************************)
(* A thread that has matched an entry may find it freed by another thread  *)
(* before its next step.  Its accesses then go to freed memory: either the *)
(* process dies, or the memory still holds the entry as it was freed, with *)
(* count 0 and next NULL, and the thread works on that dead copy.          *)
(***************************************************************************)

\* --entry->ref, first half: the count is read and one subtracted
disc_load(s) ==
    /\ ~crashed
    /\ pc[s] = "d_load"
    /\ IF EntriesOf(glfs_preopened, t_fs[s]) # {}
       THEN /\ \E i \in EntriesOf(glfs_preopened, t_fs[s]) :
                 t_tmp' = [t_tmp EXCEPT ![s] = glfs_preopened[i].ref - 1]
            /\ pc' = [pc EXCEPT ![s] = "d_store"]
            /\ UNCHANGED <<uaf, crashed>>
       ELSE /\ uaf' = TRUE
            /\ \E dies \in BOOLEAN :
                 /\ crashed' = dies
                 /\ t_tmp' = [t_tmp EXCEPT ![s] = IF dies THEN 0 ELSE 0 - 1]
                 /\ pc' = [pc EXCEPT ![s] = IF dies THEN "idle" ELSE "d_store"]
    /\ UNCHANGED <<glfs_preopened, handle_data, attached, last_call, glfs_new_calls,
                   fs_fini, acquired, released, t_fs>>
    /\ UNCHANGED <<aclVars, fsVars>>

\* --entry->ref, second half: the count is written back; return unless it is zero
disc_store(s) ==
    /\ ~crashed
    /\ pc[s] = "d_store"
    /\ IF EntriesOf(glfs_preopened, t_fs[s]) # {}
       THEN /\ \E i \in EntriesOf(glfs_preopened, t_fs[s]) :
                 glfs_preopened' = [glfs_preopened EXCEPT ![i].ref = t_tmp[s]]
            /\ UNCHANGED uaf
       ELSE /\ uaf' = TRUE
            /\ UNCHANGED glfs_preopened
    /\ IF t_tmp[s] # 0
       THEN Return(s, "disconnect", 0, t_fs[s], "none", FALSE, FALSE)
       ELSE pc' = [pc EXCEPT ![s] = "d_teardown"] /\ UNCHANGED last_call
    /\ t_tmp' = [t_tmp EXCEPT ![s] = 0]
    /\ UNCHANGED <<handle_data, attached, glfs_new_calls, fs_fini, acquired, released,
                   crashed, t_fs>>
    /\ UNCHANGED <<aclVars, fsVars>>

\* DLIST_REMOVE(glfs_preopened, entry), glfs_fini(entry->fs), talloc_free(entry) and
\* the read of the freed entry's next that continues the loop
disc_teardown(s) ==
    /\ ~crashed
    /\ pc[s] = "d_teardown"
    /\ uaf' = TRUE
    /\ IF EntriesOf(glfs_preopened, t_fs[s]) # {}
       THEN \E ub \in FreedReads(glfs_preopened) :
                LET i == CHOOSE k \in EntriesOf(glfs_preopened, t_fs[s]) : TRUE
                    rest == DLIST_REMOVE(glfs_preopened, i)
                    r == IF ub \in {NULL, WildPtr}
                         THEN [list |-> rest, finis |-> <<>>, crashed |-> ub = WildPtr]
                         ELSE clear_from(rest, t_fs[s], ub, NULL, <<>>)
                IN  /\ glfs_preopened' = r.list
                    /\ fs_fini' = fini_all(fs_fini, <<t_fs[s]>> \o r.finis)
                    /\ crashed' = r.crashed
       ELSE /\ crashed' = TRUE
            /\ UNCHANGED <<glfs_preopened, fs_fini>>
    /\ Return(s, "disconnect", 0, t_fs[s], "none", FALSE, FALSE)
    /\ UNCHANGED <<handle_data, attached, glfs_new_calls, acquired, released, t_fs, t_tmp>>
    /\ UNCHANGED <<aclVars, fsVars>>

NextConc ==
    \E s \in Shares :
        \/ conn_find(s)
        \/ conn_new(s)
        \/ conn_register(s)
        \/ disc_find(s)
        \/ disc_load(s)
        \/ disc_store(s)
        \/ disc_teardown(s)

SpecConc == Init /\ [][NextConc]_vars

-----------------------------------------------------------------------------
(* Properties of the connection cache under Spec (calls made one at a time) *)

\* the lookup key of a share and of a list entry, as the strings themselves
ShareKey(s) == <<ShareVolume(s), ShareConnectPath(s)>>
EntryKey(e) == <<e.volume, e.connectpath>>

\* the sessions glfs_new has returned so far
Sessions == 1..Len(fs_fini)

\* the attached shares whose handle->data is fs
Holders(fs) == {s \in Shares : attached[s] /\ handle_data[s] = fs}

\* this step is a call of vfs_gluster_connect by share s (a call that returns 0
\* attaches the share, a call that returns -1 has called glfs_new)
ConnectStep(s) ==
    /\ ~attached[s]
    /\ last_call'.op = "connect"
    /\ last_call'.share = s
    /\ (attached'[s] \/ glfs_new_calls' # glfs_new_calls)

(***************************************************************************)
(* C1.  A release decrements the count of the entry holding the session;   *)
(* the entry is removed and glfs_fini called only by the release that      *)
(* brings the count to zero.  For every session that was acquired N >= 1   *)
(* times: after fewer than N releases it has not been torn down and its    *)
(* one entry counts the releases still due; after N releases it has been   *)
(* torn down exactly once and no entry for it remains.                     *)
(***************************************************************************)
C1_ReleaseTeardown ==
    \A fs \in Sessions :
        acquired[fs] >= 1 =>
            IF released[fs] < acquired[fs]
            THEN /\ fs_fini[fs] = 0
                 /\ Cardinality(EntriesOf(glfs_preopened, fs)) = 1
                 /\ \A i \in EntriesOf(glfs_preopened, fs) :
                        glfs_preopened[i].ref = acquired[fs] - released[fs]
            ELSE /\ released[fs] = acquired[fs]
                 /\ fs_fini[fs] = 1
                 /\ EntriesOf(glfs_preopened, fs) = {}

\* a session acquired three times has been released three times
C1_Witness ==
    \E fs \in Sessions :
        /\ acquired[fs] = 3
        /\ released[fs] = 3
        /\ fs_fini[fs] = 1
        /\ last_call.op = "disconnect"

(***************************************************************************)
(* C2.  A connect for a (volume, connectpath) pair that has a list entry   *)
(* returns 0 with handle->data set to that entry's session, raises that    *)
(* entry's count by exactly one, changes nothing else in the list and      *)
(* calls neither glfs_new nor glfs_init (nor glfs_fini); so the second     *)
(* share to connect to a key finds count 1 and leaves count 2.             *)
(***************************************************************************)
C2_AcquireHit ==
    [][\A s \in Shares : \A i \in 1..Len(glfs_preopened) :
          (ConnectStep(s) /\ EntryKey(glfs_preopened[i]) = ShareKey(s)) =>
              /\ last_call'.ret = 0
              /\ attached'[s]
              /\ handle_data'[s] = glfs_preopened[i].fs
              /\ glfs_preopened' =
                     [glfs_preopened EXCEPT ![i].ref = glfs_preopened[i].ref + 1]
              /\ glfs_new_calls' = glfs_new_calls
              /\ ~last_call'.glfs_new
              /\ ~last_call'.glfs_init
              /\ fs_fini' = fs_fini]_vars

\* the last call was a connect that found the entry of another share: count 2
C2_Witness ==
    /\ last_call.op = "connect"
    /\ last_call.ret = 0
    /\ ~last_call.glfs_new
    /\ Cardinality(Holders(last_call.fs)) = 2
    /\ \E i \in 1..Len(glfs_preopened) :
          glfs_preopened[i].fs = last_call.fs /\ glfs_preopened[i].ref = 2

(***************************************************************************)
(* C3.  The list holds at most one entry per (volume, connectpath) pair,   *)
(* every session not torn down is the session of exactly one entry (so at  *)
(* most one live session per pair), and all shares attached with one pair  *)
(* hold the same session, the one of that pair's entry.                    *)
(***************************************************************************)
C3_OneSessionPerKey ==
    /\ \A i, j \in 1..Len(glfs_preopened) :
          EntryKey(glfs_preopened[i]) = EntryKey(glfs_preopened[j]) => i = j
    /\ \A fs \in Sessions :
          fs_fini[fs] = 0 => Cardinality(EntriesOf(glfs_preopened, fs)) = 1
    /\ \A s, u \in Shares :
          (attached[s] /\ attached[u] /\ ShareKey(s) = ShareKey(u)) =>
              handle_data[s] = handle_data[u]
    /\ \A s \in Shares :
          attached[s] =>
              \E i \in 1..Len(glfs_preopened) :
                  /\ EntryKey(glfs_preopened[i]) = ShareKey(s)
                  /\ glfs_preopened[i].fs = handle_data[s]

\* three shares of one pair are attached while another pair has its own entry
C3_Witness ==
    /\ attached["s1"] /\ attached["s2"] /\ attached["s3"] /\ attached["s4"]
    /\ Len(glfs_preopened) = 2

(***************************************************************************)
(* C6.  A connect that fails while it constructs a session (at glfs_new,   *)
(* glfs_set_volfile_server, glfs_set_xlator_option, glfs_set_logging,      *)
(* glfs_init or glfs_set_preopened) returns -1; the session glfs_new gave  *)
(* it, if any, is torn down exactly once and is no session of any entry;   *)
(* the list is the list as before the call, without an entry for the key;  *)
(* no other session is torn down and the share is not attached.            *)
(***************************************************************************)
C6_FailedAcquire ==
    [][\A s \in Shares :
          (ConnectStep(s) /\ last_call'.failed # "none") =>
              /\ last_call'.ret = -1
              /\ ~attached'[s]
              /\ glfs_preopened' = glfs_preopened
              /\ \A i \in 1..Len(glfs_preopened') :
                    EntryKey(glfs_preopened'[i]) # ShareKey(s)
              /\ IF last_call'.failed = "glfs_new"
                 THEN last_call'.fs = NULL /\ fs_fini' = fs_fini
                 ELSE /\ last_call'.fs = Len(fs_fini) + 1
                      /\ fs_fini' = Append(fs_fini, 1)
                      /\ EntriesOf(glfs_preopened', last_call'.fs) = {}]_vars

\* registration failed while another key's session, shared by two, stays as it was
C6_Witness ==
    /\ last_call.op = "connect"
    /\ last_call.ret = -1
    /\ last_call.failed = "glfs_set_preopened"
    /\ fs_fini[last_call.fs] = 1
    /\ \E i \in 1..Len(glfs_preopened) : glfs_preopened[i].ref = 2

(***************************************************************************)
(* C7.  The lookup matches an entry only when volume and connectpath are   *)
(* both the same strings: shares attached with pairs that differ in the    *)
(* volume ("volA" / "volB", same path) or in the spelling of the path      *)
(* ("/p" / "/p/", same volume) hold different sessions, each session is    *)
(* the one of the entry with exactly the share's pair, and an entry's      *)
(* count is the number of attached shares with exactly its pair (1 for a   *)
(* share alone on its pair).                                               *)
(***************************************************************************)
C7_ExactKeyMatch ==
    /\ \A s, u \in Shares :
          (attached[s] /\ attached[u] /\ ShareKey(s) # ShareKey(u)) =>
              /\ handle_data[s] # handle_data[u]
              /\ \A i \in EntriesOf(glfs_preopened, handle_data[s]) :
                    EntryKey(glfs_preopened[i]) = ShareKey(s)
    /\ \A i \in 1..Len(glfs_preopened) :
          glfs_preopened[i].ref =
              Cardinality({s \in Shares : attached[s]
                                          /\ ShareKey(s) = EntryKey(glfs_preopened[i])})

\* "volA":"/p" and "volA":"/p/" are attached, each with its own entry of count 1
C7_Witness ==
    /\ attached["s1"] /\ attached["s5"]
    /\ handle_data["s1"] # handle_data["s5"]
    /\ Len(glfs_preopened) = 2
    /\ \A i \in 1..2 : glfs_preopened[i].ref = 1

-----------------------------------------------------------------------------
(* Properties of the connection cache under SpecConc (interleaved calls) *)

(***************************************************************************)
(* C4.  Two concurrent connects for one (volume, connectpath) pair that is *)
(* not in the list never both construct a session: no two threads hold a   *)
(* constructed session for the same pair at once, and no two entries of    *)
(* the list carry the same pair.                                           *)
(***************************************************************************)
C4_SingleConstruction ==
    /\ \A s, u \in Shares :
          (s # u /\ ShareKey(s) = ShareKey(u)) => ~(pc[s] = "c_set" /\ pc[u] = "c_set")
    /\ \A i, j \in 1..Len(glfs_preopened) :
          EntryKey(glfs_preopened[i]) = EntryKey(glfs_preopened[j]) => i = j

(***************************************************************************)
(* C5.  Two concurrent releases of the last two references of a session    *)
(* tear it down exactly once: no session sees glfs_fini twice, and once    *)
(* every acquire of a session has been matched by a release that has       *)
(* returned, glfs_fini has been called on it once and its entry is gone.   *)
(***************************************************************************)
C5_SingleTeardown ==
    \A fs \in Sessions :
        /\ fs_fini[fs] <= 1
        /\ ( /\ acquired[fs] >= 1
             /\ released[fs] = acquired[fs]
             /\ \A s \in Shares : pc[s] = "idle" )
           => (fs_fini[fs] = 1 /\ EntriesOf(glfs_preopened, fs) = {})

(***************************************************************************)
(* C24.  With calls made one at a time and every share disconnecting at    *)
(* most once after a connect that returned 0: every list entry has a count *)
(* of at least 1, equal to the number of attached shares whose             *)
(* handle->data is the entry's session, and no attached share holds a      *)
(* session glfs_fini was called on.                                        *)
(***************************************************************************)
C24_RefCountsHolders ==
    /\ \A i \in 1..Len(glfs_preopened) :
          /\ glfs_preopened[i].ref >= 1
          /\ glfs_preopened[i].ref = Cardinality(Holders(glfs_preopened[i].fs))
    /\ \A s \in Shares :
          attached[s] =>
              /\ fs_fini[handle_data[s]] = 0
              /\ EntriesOf(glfs_preopened, handle_data[s]) # {}

\* one session held by two shares after another session was torn down by
\* the disconnect of its only share
C24_Witness ==
    /\ last_call.op = "disconnect"
    /\ fs_fini[last_call.fs] = 1
    /\ \E i \in 1..Len(glfs_preopened) :
          /\ glfs_preopened[i].ref = 2
          /\ Cardinality(Holders(glfs_preopened[i].fs)) = 2

\* this step is a vfs_gluster_disconnect whose session is in no list entry
ReleaseWithoutEntry ==
    /\ last_call'.op = "disconnect"
    /\ \E s \in Shares :
          /\ attached[s]
          /\ ~attached'[s]
          /\ EntriesOf(glfs_preopened, handle_data[s]) = {}

(***************************************************************************)
(* C25.  glfs_clear_preopened never reads a list entry after it unlinked   *)
(* and freed it, and a release whose session is in no entry leaves the     *)
(* list and its counts as they were and calls glfs_fini on nothing.        *)
(***************************************************************************)
C25_NoReadAfterFree ==
    /\ []~uaf
    /\ [][ReleaseWithoutEntry => UNCHANGED <<glfs_preopened, fs_fini>>]_vars

(***************************************************************************)
(* Claims about the ACL codec, checked under SpecAcl.                      *)
(***************************************************************************)
\* the principal of an entry: the uid of a named user, the gid of a named group
AclIdent(e) ==
    CASE e.a_type = "SMB_ACL_USER" -> e.uid
      [] e.a_type = "SMB_ACL_GROUP" -> e.gid
      [] OTHER -> Uninit32

UniquePairs(acl) ==
    \A i, j \in 1..Len(acl) :
        i # j => <<acl[i].a_type, AclIdent(acl[i])>> # <<acl[j].a_type, AclIdent(acl[j])>>

KnownKinds(acl) == \A i \in 1..Len(acl) : acl[i].a_type \in SmbAclTags

\* a < b as unsigned 32-bit numbers
Less32(a, b) == a[1] < b[1] \/ (a[1] = b[1] /\ a[2] < b[2])

BlobTagValue(a_type) ==
    CASE a_type = "SMB_ACL_USER_OBJ" -> 1
      [] a_type = "SMB_ACL_USER" -> 2
      [] a_type = "SMB_ACL_GROUP_OBJ" -> 4
      [] a_type = "SMB_ACL_GROUP" -> 8
      [] a_type = "SMB_ACL_MASK" -> 16
      [] a_type = "SMB_ACL_OTHER" -> 32

KeyLess(e1, e2) ==
    \/ BlobTagValue(e1.a_type) < BlobTagValue(e2.a_type)
    \/ /\ BlobTagValue(e1.a_type) = BlobTagValue(e2.a_type)
       /\ Less32(AclIdent(e1), AclIdent(e2))

(***************************************************************************)
(* C8: for a list of entries with unique (kind, identifier) pairs,         *)
(* decoding the blob that encoding produced yields exactly the same        *)
(* entries (same kind, same rwx bits, same identifier for named users and  *)
(* groups), in ascending order of (blob tag value, identifier).  Stated    *)
(* for decodes in which SMB_MALLOC succeeded.                              *)
(***************************************************************************)
C8_RoundTrip ==
    (acl_pc = "decoded" /\ UniquePairs(theacl) /\ acl_out.errno # "ENOMEM") =>
        /\ ~acl_out.null
        /\ Len(acl_out.acl) = Len(theacl)
        /\ {acl_out.acl[i] : i \in 1..Len(acl_out.acl)} = {theacl[i] : i \in 1..Len(theacl)}
        /\ \A i, j \in 1..Len(acl_out.acl) :
               i < j => KeyLess(acl_out.acl[i], acl_out.acl[j])

(***************************************************************************)
(* C9: the size query returns exactly 4 + 8*N for an ACL of N entries and  *)
(* writes nothing; when every entry has a kind the encoder knows, the      *)
(* encode that follows into a buffer of exactly that length succeeds and   *)
(* returns the same size; when some entry has not, it fails with EINVAL.   *)
(***************************************************************************)
C9_SizeQuery ==
    /\ acl_pc = "probed" =>
          /\ acl_probe = 4 + 8 * Len(theacl)
          /\ acl_buf = NullBuf
          /\ acl_ret = NoRet
    /\ (acl_pc = "encoded" /\ acl_probe # NoCall) =>
          /\ acl_ret.len = 4 + 8 * Len(theacl)
          /\ IF KnownKinds(theacl)
             THEN acl_ret.ret = acl_probe /\ acl_ret.errno = "unset"
             ELSE acl_ret.ret = -1 /\ acl_ret.errno = "EINVAL"

C9_Witness ==
    /\ acl_pc = "encoded"
    /\ Len(theacl) = 2
    /\ acl_probe = 20
    /\ acl_ret = [ret |-> 20, errno |-> "unset", len |-> 20]

\* C9 as the specification words it: the encode after the size query
\* succeeds with the same size, whatever the entries are
C9_AnyAclEncodes ==
    (acl_pc = "encoded" /\ acl_probe # NoCall) =>
        acl_ret.ret = acl_probe /\ acl_probe = 4 + 8 * Len(theacl)

(***************************************************************************)
(* C10: an encode into a buffer shorter than 4 + 8*N fails with ERANGE,    *)
(* for every N and every such length, and leaves the buffer as it was.     *)
(***************************************************************************)
C10_ShortBuffer ==
    (acl_pc = "encoded" /\ acl_ret.len < 4 + 8 * Len(theacl)) =>
        /\ acl_ret.ret = -1
        /\ acl_ret.errno = "ERANGE"
        /\ acl_buf = [i \in 1..acl_ret.len |-> Uninit]

C10_Witness ==
    /\ acl_pc = "encoded"
    /\ Len(theacl) = 2
    /\ acl_ret = [ret |-> -1, errno |-> "ERANGE", len |-> 19]
    /\ acl_buf = [i \in 1..19 |-> Uninit]

(***************************************************************************)
(* Claims about gluster_to_smb_acl on arbitrary blobs, checked under       *)
(* SpecXattr.  The blob is read here byte by byte.                         *)
(***************************************************************************)
BlobSized(b) == Len(b) >= 4 /\ (Len(b) - 4) % 8 = 0
BlobCount(b) == (Len(b) - 4) \div 8
BlobVersion2(b) == b[1] = 2 /\ b[2] = 0 /\ b[3] = 0 /\ b[4] = 0
BlobTag(b, i) == b[8 * i - 3] + 256 * b[8 * i - 2]
BlobPerm(b, i) == b[8 * i - 1] + 256 * b[8 * i]
BlobId(b, i) == <<b[8 * i + 3] + 256 * b[8 * i + 4], b[8 * i + 1] + 256 * b[8 * i + 2]>>
BlobTagsKnown(b) == \A i \in 1..BlobCount(b) : BlobTag(b, i) \in {1, 2, 4, 8, 16, 32}

(***************************************************************************)
(* C11: a blob shorter than the header, or one whose length minus the      *)
(* header is no multiple of the record size, is refused with EINVAL and no *)
(* ACL; a blob of header + N records with version 2 and known tags decodes *)
(* to exactly N entries in blob order.  Stated for decodes in which        *)
(* SMB_MALLOC succeeded.                                                   *)
(***************************************************************************)
C11_DecodeLength ==
    acl_pc = "xattr_decoded" =>
        /\ ~BlobSized(acl_buf) =>
              acl_out = [null |-> TRUE, acl |-> <<>>, errno |-> "EINVAL"]
        /\ (/\ BlobSized(acl_buf) /\ BlobVersion2(acl_buf) /\ BlobTagsKnown(acl_buf)
            /\ acl_out.errno # "ENOMEM") =>
              /\ ~acl_out.null
              /\ Len(acl_out.acl) = BlobCount(acl_buf)
              /\ \A i \in 1..BlobCount(acl_buf) :
                    LET e == acl_out.acl[i]
                    IN  /\ BlobTagValue(e.a_type) = BlobTag(acl_buf, i)
                        /\ e.a_perm = BlobPerm(acl_buf, i) % 8
                        /\ e.a_type \in {"SMB_ACL_USER", "SMB_ACL_GROUP"} =>
                              AclIdent(e) = BlobId(acl_buf, i)

C11_Witness ==
    /\ acl_pc = "xattr_decoded"
    /\ Len(acl_buf) = 20
    /\ ~acl_out.null
    /\ Len(acl_out.acl) = 2
    /\ acl_out.acl[1].a_type = "SMB_ACL_OTHER"
    /\ acl_out.acl[2].a_type = "SMB_ACL_USER"
    /\ acl_out.acl[2].uid = <<32768, 1001>>

(***************************************************************************)
(* C12: a correctly sized blob whose version is not 2, or one of whose     *)
(* tags is not a recognized kind, is refused with a format error (EINVAL,  *)
(* as for the length errors) and no ACL at all.  Stated for decodes in     *)
(* which SMB_MALLOC succeeded.                                             *)
(***************************************************************************)
C12_DecodeVersionTag ==
    (/\ acl_pc = "xattr_decoded"
     /\ BlobSized(acl_buf)
     /\ ~BlobVersion2(acl_buf) \/ ~BlobTagsKnown(acl_buf)
     /\ acl_out.errno # "ENOMEM") =>
        acl_out = [null |-> TRUE, acl |-> <<>>, errno |-> "EINVAL"]

(***************************************************************************)
(* Claims about file objects, checked under SpecFsp.                       *)
(***************************************************************************)
HeldBy(g) == {f \in Files : \E i \in 1..Len(fsp_ext[f]) : fsp_ext[f][i] = g}

(***************************************************************************)
(* C13: a file object has at most one extension, and has one exactly when  *)
(* an open on it succeeded and no close has run since; an open whose       *)
(* backend call failed returns -1 and attaches nothing; every descriptor   *)
(* is attached at most once and, once its file object is closed, has been  *)
(* detached exactly once.                                                  *)
(***************************************************************************)
C13_OneExtension ==
    /\ \A f \in Files :
          /\ Len(fsp_ext[f]) <= 1
          /\ (fsp_ext[f] # <<>>) <=> fsp_opened[f]
    /\ (last_op.op = "open" /\ last_op.backend # "ok") =>
          /\ last_op.ret = -1
          /\ fsp_ext[last_op.fsp] = <<>>
          /\ ~fsp_opened[last_op.fsp]
    /\ \A g \in 1..Len(glfds) :
          /\ glfds[g].attached <= 1
          /\ glfds[g].detached = (IF glfds[g].attached = 1 /\ HeldBy(g) = {} THEN 1 ELSE 0)
          /\ Cardinality(HeldBy(g)) <= 1

C13_Witness ==
    /\ last_op.op = "close"
    /\ last_op.fsp = "f1"
    /\ fsp_ext["f1"] = <<>>
    /\ fsp_ext["f2"] = <<2>>
    /\ Len(glfds) = 3
    /\ glfds[1].detached = 1
    /\ glfds[3].detached = 1
    /\ errno = "EIO"

(***************************************************************************)
(* C18: the operations of the features this module leaves out never call   *)
(* the backend and change no connection, handle or file state.  get_quota, *)
(* set_quota, linux_setlease and chflags fail with ENOSYS, sendfile,       *)
(* recvfile and set_offline fail with ENOTSUP, notify_watch returns        *)
(* NT_STATUS_NOT_IMPLEMENTED; the two queries aio_force and is_offline     *)
(* answer false and kernel_flock returns 0, all three leaving errno alone. *)
(***************************************************************************)
UnsupportedResult ==
    last_op.op \in UnsupportedOps =>
        /\ last_op.calls = <<>>
        /\ last_op.op \in {"get_quota", "set_quota", "linux_setlease", "chflags"} =>
              last_op.value = "-1" /\ errno = "ENOSYS"
        /\ last_op.op \in {"sendfile", "recvfile", "set_offline"} =>
              last_op.value = "-1" /\ errno = "ENOTSUP"
        /\ last_op.op = "notify_watch" => last_op.value = "NT_STATUS_NOT_IMPLEMENTED"
        /\ last_op.op \in {"aio_force", "is_offline"} => last_op.value = "false"
        /\ last_op.op = "kernel_flock" => last_op.value = "0"

UnsupportedLeavesState ==
    last_op'.op \in UnsupportedOps =>
        /\ UNCHANGED <<cacheVars, threadVars, aclVars, segv, fspVars, dirVars, opsVars>>
        /\ last_op'.op \in {"notify_watch", "aio_force", "is_offline", "kernel_flock"} =>
              errno' = errno

C18_Unsupported == []UnsupportedResult /\ [][UnsupportedLeavesState]_vars

\* aio_force with one file object open and one closed, after an earlier call
\* left EIO in errno
C18_Witness ==
    /\ last_op.op = "aio_force"
    /\ last_op.value = "false"
    /\ \E f \in Files : fsp_opened[f]
    /\ \E f \in Files : ~fsp_opened[f]
    /\ errno = "EIO"

\* the statement for every one of the listed features: a not-supported error
C18_AlwaysNotSupported ==
    last_op.op \in UnsupportedOps \ {"kernel_flock"} =>
        /\ last_op.calls = <<>>
        /\ \/ last_op.value = "-1" /\ errno \in {"ENOSYS", "ENOTSUP"}
           \/ last_op.value = "NT_STATUS_NOT_IMPLEMENTED"


(***************************************************************************)
(* Claims about directory streams, checked under SpecDir.                  *)
(***************************************************************************)
\* the last call was a readdir that came right after an op call and did not
\* fail in the backend
ReaddirAfter(op) ==
    last_op.op = "readdir" /\ last_op.after = op /\ last_op.cause # "error"

\* that readdir handed out the i-th entry of the directory, or, if there is
\* no i-th entry, reported the end
HandedOut(i) ==
    IF i <= Len(dir_entries)
    THEN /\ last_op.ret = "&result"
         /\ last_op.result[1].d_name = dir_entries[i].d_name
         /\ last_op.result[1].d_ino = dir_entries[i].d_ino
    ELSE last_op.ret = "NULL" /\ last_op.cause = "end"

(***************************************************************************)
(* C14: after a seekdir to a cursor that telldir gave on this stream,      *)
(* whatever was read in between, the next readdir hands out the entry that *)
(* a readdir right after that telldir would have handed out.               *)
(***************************************************************************)
C14_CursorRoundTrip == ReaddirAfter("seekdir") => HandedOut(last_op.expect)

C14_Witness ==
    /\ ReaddirAfter("seekdir")
    /\ Len(dir_entries) = 3
    /\ last_op.expect = 2
    /\ last_op.result[1].d_name = <<98>>
    /\ \E c \in dir_cursors : c.next = 4

C19_RewindIsSeekZero ==
    /\ last_op.op = "rewinddir" =>
          dir_open /\ dir_offset = seekdir_fn(dir_offset, 0)
    /\ ReaddirAfter("rewinddir") => HandedOut(1)

C19_Witness ==
    /\ ReaddirAfter("rewinddir")
    /\ Len(dir_entries) = 3
    /\ last_op.result[1].d_name = <<97>>
    /\ \E c \in dir_cursors : c.next = 4

(***************************************************************************)
(* C16: get_real_filename reports name-too-long, without a backend call,   *)
(* exactly when the requested name is longer than NAME_MAX; every name of  *)
(* at most NAME_MAX characters is looked up in the backend under the       *)
(* attribute name made of the prefix and the requested name.               *)
(***************************************************************************)
NameTooLongReported ==
    /\ last_op.ret = -1
    /\ errno = "ENAMETOOLONG"
    /\ last_op.calls = <<>>

C16_NameTooLong ==
    last_op.op = "get_real_filename" =>
        /\ NameTooLongReported <=> Len(last_op.name) > NAME_MAX
        /\ Len(last_op.name) <= NAME_MAX =>
              /\ last_op.calls = <<"glfs_getxattr">>
              /\ last_op.key = RealFilenamePrefix \o last_op.name

(***************************************************************************)
(* C17: a failing backend call makes the operation return failure with the *)
(* backend's error code in errno, and the backend is called once, not      *)
(* retried.  The one code that is changed on the way is ENODATA from the   *)
(* lookup of get_real_filename, which is reported as EOPNOTSUPP.           *)
(***************************************************************************)
BackendFailed ==
    /\ last_op.op \in {"stat", "unlink", "get_real_filename"}
    /\ last_op.backend \in BackendErrnos

Nsec(v) == IF last_op.have_nsec THEN v ELSE 0

C20_StatCopy ==
    last_op.op = "stat" /\ last_op.ret = 0 =>
        LET src == last_op.src
            dst == smb_fname_st
        IN  /\ dst.st_ex_dev = src.st_dev
            /\ dst.st_ex_ino = src.st_ino
            /\ dst.st_ex_mode = src.st_mode
            /\ dst.st_ex_nlink = src.st_nlink
            /\ dst.st_ex_uid = src.st_uid
            /\ dst.st_ex_gid = src.st_gid
            /\ dst.st_ex_rdev = src.st_rdev
            /\ dst.st_ex_size = src.st_size
            /\ dst.st_ex_blksize = src.st_blksize
            /\ dst.st_ex_blocks = src.st_blocks
            /\ dst.st_ex_atime = [tv_sec |-> src.st_atime, tv_nsec |-> Nsec(src.st_atime_nsec)]
            /\ dst.st_ex_mtime = [tv_sec |-> src.st_mtime, tv_nsec |-> Nsec(src.st_mtime_nsec)]
            /\ dst.st_ex_ctime = [tv_sec |-> src.st_ctime, tv_nsec |-> Nsec(src.st_ctime_nsec)]
            /\ dst.st_ex_btime = dst.st_ex_mtime
            /\ DOMAIN dst = {"st_ex_dev", "st_ex_ino", "st_ex_mode", "st_ex_nlink",
                             "st_ex_uid", "st_ex_gid", "st_ex_rdev", "st_ex_size",
                             "st_ex_atime", "st_ex_mtime", "st_ex_ctime", "st_ex_btime",
                             "st_ex_blksize", "st_ex_blocks"}

\* a negative size from the backend, on a platform with nanosecond times
C20_Witness ==
    /\ last_op.op = "stat"
    /\ last_op.ret = 0
    /\ last_op.have_nsec
    /\ last_op.src.st_size = -1
    /\ smb_fname_st.st_ex_size = -1
    /\ smb_fname_st.st_ex_btime = [tv_sec |-> 10, tv_nsec |-> 15]

(***************************************************************************)
(* Claims about descriptors shared with a directory stream, checked under  *)
(* SpecFdir.                                                               *)
(***************************************************************************)
\* the descriptor is on no file object and was on one: its file object is closed
Closed(g) == glfds[g].attached >= 1 /\ HeldBy(g) = {}

(***************************************************************************)
(* C22: every descriptor a successful open created is released to the      *)
(* backend (glfs_close or glfs_closedir) at most once over any sequence of *)
(* fdopendir, closedir and close on its file object, and exactly once when *)
(* its file object has been closed.                                        *)
(***************************************************************************)
C22_ReleasedOnce ==
    \A g \in 1..Len(glfds) :
        /\ glfds[g].released <= 1
        /\ Closed(g) => glfds[g].released = 1

(***************************************************************************)
(* Claims about storing an ACL, checked under SpecSet.                     *)
(***************************************************************************)
SetOps == {"sys_acl_set_file", "sys_acl_set_fd"}

\* the call failed before the store: a type that is neither access nor
\* default, or an entry of a kind the encoder does not know
FailsBeforeStore(call) ==
    /\ call.op \in SetOps
    /\ \/ call.acltype \notin {"SMB_ACL_TYPE_ACCESS", "SMB_ACL_TYPE_DEFAULT"}
       \/ ~KnownKinds(call.acl)

SetFailed == FailsBeforeStore(last_op) => last_op.ret = -1 /\ last_op.calls = <<>>

SetLeavesBlob == FailsBeforeStore(last_op') => xattrs' = xattrs

(***************************************************************************)
(* C23: a sys_acl_set_file or sys_acl_set_fd that fails before the store   *)
(* (ACL type neither access nor default, or an entry of unrecognized kind) *)
(* returns -1 and makes no setxattr or fsetxattr call, and the blobs       *)
(* stored for the file are what they were.                                 *)
(***************************************************************************)
C23_FailedSetStoresNothing == []SetFailed /\ [][SetLeavesBlob]_vars

\* an ACL whose second entry is of no known kind, refused after an access
\* ACL had been stored for the file
C23_Witness ==
    /\ last_op.op = "sys_acl_set_fd"
    /\ Len(last_op.acl) = 2
    /\ last_op.acl[1].a_type = "SMB_ACL_USER_OBJ"
    /\ last_op.acl[2].a_type = "SMB_ACL_TAG_INVALID"
    /\ last_op.ret = -1
    /\ errno = "EINVAL"
    /\ xattrs["system.posix_acl_access"] # <<>>

(***************************************************************************)
(* Claims about the comparator, checked under SpecCmp.                     *)
(***************************************************************************)
\* (tag, id) of e1 below (tag, id) of e2, the ids as unsigned 32-bit numbers
AceLess(e1, e2) == e1.tag < e2.tag \/ (e1.tag = e2.tag /\ Less32(e1.id, e2.id))

(***************************************************************************)
(* C21: gluster_ace_cmp is a strict total order that agrees with ascending *)
(* numeric order of (tag, id): a record with the smaller pair compares     *)
(* below the other whatever the distance of the two ids, records with the  *)
(* same pair compare equal, the order is antisymmetric and transitive, and *)
(* the array gluster_acl_normalize leaves is the records in ascending      *)
(* order of (tag, id).                                                     *)
(***************************************************************************)
C21_ComparatorOrder ==
    /\ cmp_ret # <<>> =>
          \A i, j \in 1..Len(cmp_aces) :
              /\ AceLess(cmp_aces[i], cmp_aces[j]) => cmp_ret[i][j] < 0
              /\ (cmp_aces[i].tag = cmp_aces[j].tag /\ cmp_aces[i].id = cmp_aces[j].id)
                     => cmp_ret[i][j] = 0
              /\ cmp_ret[i][j] = 0 - cmp_ret[j][i]
              /\ \A k \in 1..Len(cmp_aces) :
                     (cmp_ret[i][j] < 0 /\ cmp_ret[j][k] < 0) => cmp_ret[i][k] < 0
    /\ cmp_sorted # <<>> =>
          /\ \E p \in Permutations(1..Len(cmp_aces)) : cmp_sorted = Permuted(cmp_aces, p)
          /\ \A i, j \in 1..Len(cmp_sorted) :
                 i < j => ~AceLess(cmp_sorted[j], cmp_sorted[i])

=============================================================================
